---- MODULE Spec2Model ----
(***************************************************************************)
(* Model of the demand-forecasting service (ai-service/main.py,            *)
(* ai-service/models/demand_predictor.py and ai-service/utils/auth.py).    *)
(*                                                                         *)
(* Units.  Demand is counted in items.  Money is in whole rupees, except   *)
(* expected_profit, which is kept in 1/100 rupee so that the 0.3 and 0.25  *)
(* margins are exact (x * 0.3 rupee = x * 30 hundredths).  Per-day         *)
(* predictions and aggregated quantities are kept in tenths of an item,    *)
(* so that int(...) of a sum truncates.  A confidence is the exact         *)
(* fraction num/den.  An Optional[float] budget is <<>> for None and <<b>> *)
(* for the number b.                                                       *)
(***************************************************************************)
EXTENDS Integers, Sequences, FiniteSets, TLC

VARIABLES
    month,            \* datetime.now().month
    forest,           \* which function the fitted regressor computes
    history,          \* number of dates in the generator's date range
    rng,              \* state of the process-wide numpy random source
    pc,               \* position of the /predict/demand handler
    req,              \* the request being served
    predictions,      \* result of demand_predictor.predict
    recommendations,  \* result of demand_predictor.generate_recommendations
    offered,          \* the costed, sorted list the budget loop of this request ran over
    generated,        \* company_id -> the tables the debug endpoint has returned for it
    forecast,         \* the list _ml_prediction returned to predict in this request
    models,           \* DemandPredictor.models
    scalers,          \* DemandPredictor.scalers
    is_trained,       \* DemandPredictor.is_trained
    last_trained,     \* DemandPredictor.last_trained: <<>> for None, else <<month>>
    trained,          \* the company ids for which train has returned True
    status,           \* the last answer of get_status, with the id it was asked for
    api_key,          \* the environment's AI_API_KEY: <<>> when unset, else <<string>>
    http,             \* the last HTTP request and what the service did with it
    payment_recommender, \* the shared PaymentRecommender: its models, is_trained, last_trained
    payment_trained,  \* the company ids for which PaymentRecommender.train has returned True
    payment_status,   \* the last answer of PaymentRecommender.get_status, with the id asked for
    payment_data,     \* company_id -> the shape of the rows the payment data source returns for it
    customer_data,    \* the rows handed to _generate_customer_recommendation
    recommendation,   \* what _generate_customer_recommendation returned for them
    assessment,       \* the last answer of assess_payment_risk, with the table it counted
    query,            \* the last question put to process_natural_query, with the id asked for
    answer,           \* what process_natural_query did with it
    business_data,    \* the shape of the rows the business data source returns
    summary           \* the last answer of generate_summary, with the id asked for

\* The fields of the shared DemandPredictor instance (lines 17-20).
predictorVars == <<models, scalers, is_trained, last_trained>>
\* What is remembered of the training and status calls.
trackVars == <<trained, status>>
\* The payment recommender: its fields and what is remembered of its calls.
paymentVars == <<payment_recommender, payment_trained, payment_status, payment_data, customer_data,
                 recommendation, assessment>>
\* The business analyzer's questions and summaries.
analyzerVars == <<query, answer, business_data, summary>>
\* The two components beside the demand predictor.
adviserVars == <<paymentVars, analyzerVars>>

vars == <<month, forest, history, rng, pc, req, predictions, recommendations, offered,
          generated, forecast, models, scalers, is_trained, last_trained, trained,
          status, api_key, http, payment_recommender, payment_trained, payment_status,
          payment_data, customer_data, recommendation, assessment, query, answer, business_data, summary>>

----------------------------------------------------------------------------
\* Bounds of the model.

\* Number of dates of the generator's range (the source's range has 670).
HistoryDays == 6
\* Largest number of draws another component makes after seeding.
MaxOtherDraws == 2
\* Generations per company that the record of returned tables counts.
MaxGenerations == 2

CompanyIds == {-1, 1, 2}
Budgets == {<<>>, <<0>>, <<-500>>, <<900>>, <<1000>>, <<1050>>, <<10000>>, <<20000>>, <<300000>>}
Horizons == {0, 1, 60, 100}
Months == 1..12
Forests == {"mean", "leaf"}
ForcedHistories == {1, 3}

----------------------------------------------------------------------------
\* Arithmetic helpers.

Max(a, b) == IF a >= b THEN a ELSE b
Min(a, b) == IF a <= b THEN a ELSE b

\* Python's int() of the quotient n/d (d > 0): truncation toward zero.
Trunc(n, d) == IF n >= 0 THEN n \div d ELSE -((-n) \div d)

\* s[lo] + ... + s[hi], summed by halves.
RECURSIVE SumRange(_, _, _)
SumRange(s, lo, hi) ==
    IF lo > hi THEN 0
    ELSE IF lo = hi THEN s[lo]
    ELSE SumRange(s, lo, (lo + hi) \div 2) + SumRange(s, ((lo + hi) \div 2) + 1, hi)

SumSeq(s) == SumRange(s, 1, Len(s))

\* s[:n] of Python, n >= 0.
Prefix(s, n) == SubSeq(s, 1, Min(n, Len(s)))

----------------------------------------------------------------------------
\* The process-wide random source (numpy's global generator).  The generator
\* is a 32-state linear congruential one; a draw advances the state and the
\* value drawn is a function of the new state.

RngStates == 0..31
RngNext(s) == (5 * s + 3) % 32

\* np.random.seed(company_id): accepted for 0 <= seed < 2^32 only.
SeedOk(company_id) == company_id >= 0
\* (SeedNoReset: a generator that keeps the state it finds.)
SeedNoReset(company_id, s) == s
Seed(company_id, s) == company_id % 32

\* np.random.poisson(10): a non-negative integer.
PoissonDraw(s) == s % 4
\* np.random.normal(0, 0.1), in percent; one state stands for the far tail.
NormalPct(s) == IF s = 31 THEN -120 ELSE (((s \div 4) % 3) - 1) * 10
\* np.random.uniform(50, 200).
UniformPrice(s) == 50 + (s * 150) \div 32

RECURSIVE Advance(_, _)
Advance(s, n) == IF n = 0 THEN s ELSE Advance(RngNext(s), n - 1)

----------------------------------------------------------------------------
\* _get_sales_data

Items == <<"item_a", "item_b", "item_c", "item_d", "item_e">>

DayOfYear(date) == ((date - 1) % 365) + 1

\* 1 + 0.2 * sin(2*pi*dayofyear/365), in thousandths; the sine by
\* Bhaskara's rational approximation on whole degrees.
SeasonalFactor(doy) ==
    LET deg == (360 * doy) \div 365
        x == IF deg <= 180 THEN deg ELSE deg - 180
        y == x * (180 - x)
        s == (800 * y) \div (40500 - y)
    IN  IF deg <= 180 THEN 1000 + s ELSE 1000 - s

\* One row of the table: three draws, in the order of the source.
SalesRow(date, item, s) ==
    LET s1 == RngNext(s)
        s2 == RngNext(s1)
        s3 == RngNext(s2)
        base_sales == PoissonDraw(s1)
        sales == Trunc(base_sales * SeasonalFactor(DayOfYear(date)) * (100 + NormalPct(s2)),
                       100000)
    IN  [row |-> [date |-> date, item_name |-> item,
                  quantity_sold |-> Max(0, sales), price |-> UniformPrice(s3)],
         rng |-> s3]

RECURSIVE GenRows(_, _, _, _)
GenRows(k, n, s, acc) ==
    IF k > n THEN [table |-> acc, rng |-> s]
    ELSE LET r == SalesRow(((k - 1) \div Len(Items)) + 1,
                           Items[((k - 1) % Len(Items)) + 1], s)
         IN  GenRows(k + 1, n, r.rng, Append(acc, r.row))

\* _get_sales_data(company_id) run with the random source in state s over a
\* range of ndates dates: err when the seed is refused (nothing is drawn).
\* (GetSalesDataByAge: half the date range for identifiers from 100 on.)
GetSalesDataByAge(company_id, s, ndates) ==
    IF ~SeedOk(company_id)
    THEN [err |-> TRUE, table |-> <<>>, rng |-> s]
    ELSE LET n == IF company_id >= 100 THEN ndates \div 2 ELSE ndates
             g == GenRows(1, n * Len(Items), Seed(company_id, s), <<>>)
         IN  [err |-> FALSE, table |-> g.table, rng |-> g.rng]
GetSalesData(company_id, s, ndates) ==
    IF ~SeedOk(company_id)
    THEN [err |-> TRUE, table |-> <<>>, rng |-> s]
    ELSE LET g == GenRows(1, ndates * Len(Items), Seed(company_id, s), <<>>)
         IN  [err |-> FALSE, table |-> g.table, rng |-> g.rng]

\* The record of returned tables after the generation g for company_id.
Recorded(company_id, g) ==
    IF g.err THEN generated
    ELSE [generated EXCEPT ![company_id] =
            [tables |-> @.tables \cup {g.table},
             count |-> Min(@.count + 1, MaxGenerations)]]

----------------------------------------------------------------------------
\* _ml_prediction

\* Program constants.
MinRows == 10
MinItemRows == 5
Window30 == 30
Window60 == 60
UnitCost == 100
MinOrder == 1000
FallbackUnitCost == 150
TopN == 3

RECURSIVE SortedSeq(_)
SortedSeq(S) ==
    IF S = {} THEN <<>>
    ELSE LET m == CHOOSE x \in S : \A y \in S : x <= y
         IN  <<m>> \o SortedSeq(S \ {m})

\* The quantity_sold column of some rows.
Quantities(rows) == [i \in DOMAIN rows |-> rows[i].quantity_sold]

\* groupby(item_name, day_of_year, ...).agg(quantity_sold: mean), the rows of
\* one item in key order; the mean is kept in tenths.  (month and
\* week_of_year are functions of the date and are not carried.)
ItemFrame(table, item) ==
    LET mine == SelectSeq(table, LAMBDA r : r.item_name = item)
        doys == SortedSeq({DayOfYear(mine[k].date) : k \in DOMAIN mine})
        grp(d) == SelectSeq(mine, LAMBDA r : DayOfYear(r.date) = d)
    IN  [i \in DOMAIN doys |->
            [day_of_year |-> doys[i],
             quantity_sold |-> (10 * SumSeq(Quantities(grp(doys[i])))) \div Len(grp(doys[i]))]]

\* item_data['item_name'].unique(): the items that have rows, in order.
ItemsPresent(table) ==
    SelectSeq(Items, LAMBDA it : \E k \in DOMAIN table : table[k].item_name = it)

\* train_test_split(test_size=0.2, random_state=42): ceil(0.2 n) rows are
\* held out, chosen by a shuffle that depends on n alone; the last rows
\* stand for them.
TestSize(n) == (n + 4) \div 5
TrainRows(frame) == SubSeq(frame, 1, Len(frame) - TestSize(Len(frame)))
TestRows(frame) == SubSeq(frame, Len(frame) - TestSize(Len(frame)) + 1, Len(frame))

\* y: the target column of a frame.
Targets(rows) == [i \in DOMAIN rows |-> rows[i].quantity_sold]

\* model.fit and model.predict (tenths).  A forest of regression trees
\* answers with an average of training targets: "mean" is the forest of
\* stumps, "leaf" the forest that isolates one training row per leaf.
Fit(f, train) ==
    [kind |-> f,
     mean |-> SumSeq(Targets(train)) \div Len(train),
     leaves |-> Targets(train)]

ModelPredict(model, doy) ==
    IF model.kind = "mean" THEN model.mean
    ELSE model.leaves[(doy % Len(model.leaves)) + 1]

\* dayofyear of the first day of a month (the clock is read on that day).
MonthStart(mon) == <<1, 32, 60, 91, 121, 152, 182, 213, 244, 274, 305, 335>>[mon]

\* future_features: the days now+1 .. now+days_ahead.
FutureDoys(mon, days_ahead) ==
    [t \in 1..days_ahead |-> ((MonthStart(mon) - 1 + t) % 365) + 1]

\* |y_test - y_pred| row by row.
AbsErrors(model, test) ==
    [i \in DOMAIN test |->
        LET e == test[i].quantity_sold - ModelPredict(model, test[i].day_of_year)
        IN  IF e >= 0 THEN e ELSE -e]

\* max(0.3, 1.0 - mae / np.mean(y_test)) as a fraction.  With sumErr and
\* sumTarget the sums over the held-out rows, mae/mean = sumErr/sumTarget; a
\* zero mean gives nan or -inf under numpy division, and max(0.3, .) is 0.3.
\* (ConfidenceNoFloor: 1 - mae/mean without the max.)
ConfidenceNoFloor(sumErr, sumTarget) ==
    IF sumTarget = 0 THEN [num |-> 0, den |-> 10]
    ELSE [num |-> sumTarget - sumErr, den |-> sumTarget]
Confidence(sumErr, sumTarget) ==
    IF sumTarget = 0 THEN [num |-> 3, den |-> 10]
    ELSE IF 10 * (sumTarget - sumErr) < 3 * sumTarget THEN [num |-> 3, den |-> 10]
    ELSE [num |-> sumTarget - sumErr, den |-> sumTarget]

\* int(future_predictions[:n].sum())
Bucket(future, n) == SumSeq(Prefix(future, n)) \div 10

\* future_predictions of one item (lines 125-146): the fitted model's
\* prediction for each of the days_ahead future days.
FuturePredictions(frame, days_ahead, mon, f) ==
    LET model == Fit(f, TrainRows(frame))
        doys == FutureDoys(mon, days_ahead)
    IN  [t \in 1..days_ahead |-> ModelPredict(model, doys[t])]

\* The forecast of one item (the dict appended at lines 154-164).
ItemForecast(item, frame, days_ahead, mon, f) ==
    LET model == Fit(f, TrainRows(frame))
        test == TestRows(frame)
        future == FuturePredictions(frame, days_ahead, mon, f)
        total == SumSeq(future)
    IN  [item_name |-> item,
         predicted_demand_30d |-> Bucket(future, Window30),
         predicted_demand_60d |-> Bucket(future, Window60),
         predicted_demand_90d |-> total \div 10,
         avg_daily_demand |-> total \div days_ahead,
         confidence |-> Confidence(SumSeq(AbsErrors(model, test)), SumSeq(Targets(test))),
         reason |-> "Based on historical sales patterns and machine learning"]

RECURSIVE ForecastItems(_, _, _, _, _)
ForecastItems(items, table, days_ahead, mon, f) ==
    IF items = <<>> THEN <<>>
    ELSE LET frame == ItemFrame(table, Head(items))
             rest == ForecastItems(Tail(items), table, days_ahead, mon, f)
         IN  IF Len(frame) < MinItemRows THEN rest
             ELSE <<ItemForecast(Head(items), frame, days_ahead, mon, f)>> \o rest

\* An item reaches model.predict (it is not skipped for too few rows).
SomeItemFitted(table) ==
    \E k \in DOMAIN Items : Len(ItemFrame(table, Items[k])) >= MinItemRows

\* model.predict (or pd.date_range) raises for the first fitted item when
\* there is no future day to predict.
MlRaises(table, days_ahead) == days_ahead <= 0 /\ SomeItemFitted(table)

\* _ml_prediction: its own except clause turns any error into [].
MlPrediction(table, days_ahead, mon, f) ==
    IF MlRaises(table, days_ahead) THEN <<>>
    ELSE ForecastItems(ItemsPresent(table), table, days_ahead, mon, f)

----------------------------------------------------------------------------
\* _apply_seasonal_adjustments

\* int(x * 1.3) and int(x * 0.9) for a non-negative integer x.
\* (SeasonalDemandEarly: October counted with the holiday season.)
SeasonalDemandEarly(d, mon) ==
    IF mon \in {10, 11, 12} THEN (13 * d) \div 10
    ELSE IF mon \in {6, 7, 8} THEN (9 * d) \div 10
    ELSE d
SeasonalDemand(d, mon) ==
    IF mon \in {11, 12} THEN (13 * d) \div 10
    ELSE IF mon \in {6, 7, 8} THEN (9 * d) \div 10
    ELSE d

ApplySeasonalAdjustments(preds, mon) ==
    [i \in DOMAIN preds |->
        [preds[i] EXCEPT !.predicted_demand_90d = SeasonalDemand(@, mon)]]

----------------------------------------------------------------------------
\* _apply_budget_constraints

\* Lines 188-192: every item is costed anew from its 90-day demand.
Costed(pred) ==
    [f \in DOMAIN pred \cup {"investment_required", "expected_profit", "roi_percentage"} |->
        CASE f = "investment_required" -> pred.predicted_demand_90d * UnitCost
          [] f = "expected_profit" -> pred.predicted_demand_90d * UnitCost * 30
          [] f = "roi_percentage" -> 30
          [] OTHER -> pred[f]]

\* expected_profit / investment_required raises ZeroDivisionError.
CostingRaises(preds) == \E i \in DOMAIN preds : preds[i].predicted_demand_90d = 0

\* predictions.sort(key=roi_percentage, reverse=True): stable, descending.
\* (InsertByRoiUnstable: ties put the later item first.)
RECURSIVE InsertByRoiUnstable(_, _)
InsertByRoiUnstable(sorted, x) ==
    IF sorted = <<>> THEN <<x>>
    ELSE IF Head(sorted).roi_percentage > x.roi_percentage
         THEN <<Head(sorted)>> \o InsertByRoiUnstable(Tail(sorted), x)
    ELSE <<x>> \o sorted
RECURSIVE InsertByRoi(_, _)
InsertByRoi(sorted, x) ==
    IF sorted = <<>> THEN <<x>>
    ELSE IF Head(sorted).roi_percentage >= x.roi_percentage
         THEN <<Head(sorted)>> \o InsertByRoi(Tail(sorted), x)
    ELSE <<x>> \o sorted

RECURSIVE SortByRoiUpTo(_, _)
SortByRoiUpTo(s, n) ==
    IF n = 0 THEN <<>> ELSE InsertByRoi(SortByRoiUpTo(s, n - 1), s[n])

SortByRoi(preds) == SortByRoiUpTo(preds, Len(preds))

\* Lines 208-211: the copy of an item cut down to the remaining budget.
\* (PartialItemUncut: the item appended as it is.)
PartialItemUncut(pred, remaining_budget) == pred
PartialItem(pred, remaining_budget) ==
    [pred EXCEPT !.investment_required = remaining_budget,
                 !.predicted_demand_90d = Trunc(remaining_budget, UnitCost),
                 !.expected_profit = remaining_budget * 30]

\* Lines 197-215: the loop from item i on, with total_investment = total.
\* (AllocateNoBreak: the same loop without its break.)
RECURSIVE AllocateNoBreak(_, _, _, _, _)
AllocateNoBreak(preds, budget, i, total, acc) ==
    IF i > Len(preds) THEN acc
    ELSE IF total + preds[i].investment_required <= budget
         THEN AllocateNoBreak(preds, budget, i + 1, total + preds[i].investment_required,
                              Append(acc, preds[i]))
    ELSE IF total < budget /\ budget - total >= MinOrder
         THEN AllocateNoBreak(preds, budget, i + 1, total,
                              Append(acc, PartialItem(preds[i], budget - total)))
    ELSE AllocateNoBreak(preds, budget, i + 1, total, acc)

\* (AllocateStrictMin: the minimum order tested with > for >=.)
RECURSIVE AllocateStrictMin(_, _, _, _, _)
AllocateStrictMin(preds, budget, i, total, acc) ==
    IF i > Len(preds) THEN acc
    ELSE IF total + preds[i].investment_required <= budget
         THEN AllocateStrictMin(preds, budget, i + 1, total + preds[i].investment_required,
                                Append(acc, preds[i]))
    ELSE IF total < budget
         THEN IF budget - total > MinOrder
              THEN Append(acc, PartialItem(preds[i], budget - total))
              ELSE acc
    ELSE AllocateStrictMin(preds, budget, i + 1, total, acc)

RECURSIVE Allocate(_, _, _, _, _)
Allocate(preds, budget, i, total, acc) ==
    IF i > Len(preds) THEN acc
    ELSE IF total + preds[i].investment_required <= budget
         THEN Allocate(preds, budget, i + 1, total + preds[i].investment_required,
                       Append(acc, preds[i]))
    ELSE IF total < budget
         THEN IF budget - total >= MinOrder
              THEN Append(acc, PartialItem(preds[i], budget - total))
              ELSE acc
    ELSE Allocate(preds, budget, i + 1, total, acc)

\* The list the loop runs over (after line 195): costed and sorted.
CostedSorted(preds) == SortByRoi([i \in DOMAIN preds |-> Costed(preds[i])])

\* _apply_budget_constraints(predictions, budget), defined when
\* ~CostingRaises(predictions).
ApplyBudgetConstraints(preds, budget) == Allocate(CostedSorted(preds), budget, 1, 0, <<>>)

----------------------------------------------------------------------------
\* _fallback_prediction

DefaultItems == <<"Coffee Beans (Premium)", "Hand Sanitizer Bottles",
                  "Reusable Shopping Bags", "Energy-efficient Light Bulbs",
                  "Organic Tea Collection">>

Truthy(budget) == budget # <<>> /\ budget[1] # 0

\* base_demand of the item at index i (from 0).
BaseDemand(i) == 50 + (i * 25)

\* The dict built at lines 232-245 for index i (from 0).
\* (FallbackItemCosted: the costing of lines 242-247 done without its test.)
FallbackItemCosted(i, budget) ==
    [item_name |-> DefaultItems[i + 1],
     predicted_demand_30d |-> BaseDemand(i),
     predicted_demand_60d |-> BaseDemand(i) * 2,
     predicted_demand_90d |-> BaseDemand(i) * 3,
     avg_daily_demand |-> (BaseDemand(i) * 10) \div 30,
     confidence |-> [num |-> Max(4, 6 - i), den |-> 10],
     reason |-> "Based on industry trends and market analysis",
     investment_required |-> BaseDemand(i) * FallbackUnitCost,
     expected_profit |-> BaseDemand(i) * FallbackUnitCost * 25,
     roi_percentage |-> 25]
FallbackItem(i, budget) ==
    LET plain == [item_name |-> DefaultItems[i + 1],
                  predicted_demand_30d |-> BaseDemand(i),
                  predicted_demand_60d |-> BaseDemand(i) * 2,
                  predicted_demand_90d |-> BaseDemand(i) * 3,
                  avg_daily_demand |-> (BaseDemand(i) * 10) \div 30,
                  confidence |-> [num |-> Max(4, 6 - i), den |-> 10],
                  reason |-> "Based on industry trends and market analysis"]
    IN  IF Truthy(budget)
        THEN plain @@ [investment_required |-> BaseDemand(i) * FallbackUnitCost,
                       expected_profit |-> BaseDemand(i) * FallbackUnitCost * 25,
                       roi_percentage |-> 25]
        ELSE plain

\* The catalog before the budget is applied.
FallbackCatalog(budget) == [k \in DOMAIN DefaultItems |-> FallbackItem(k - 1, budget)]

FallbackPrediction(budget, days_ahead) ==
    IF Truthy(budget)
    THEN ApplyBudgetConstraints(FallbackCatalog(budget), budget[1])
    ELSE FallbackCatalog(budget)

\* The list the budget loop runs over inside _fallback_prediction.
FallbackOffered(budget) ==
    IF Truthy(budget) THEN CostedSorted(FallbackCatalog(budget)) ELSE <<>>

----------------------------------------------------------------------------
\* predict

\* The list predict works on after the seasonal adjustment (line 65).
Adjusted(table, days_ahead, mon, f) ==
    ApplySeasonalAdjustments(MlPrediction(table, days_ahead, mon, f), mon)

\* len(sales_data) < 10 sends predict to the fallback (line 58).
\* (EnoughDataAlways: the test left out.)
EnoughDataAlways(table) == TRUE
EnoughData(table) == Len(table) >= MinRows

\* predict returning the fallback, from the path named.
ViaFallback(budget, days_ahead, path, g, ml) ==
    [val |-> FallbackPrediction(budget, days_ahead), path |-> path, data |-> g,
     offered |-> FallbackOffered(budget), forecast |-> ml]

\* predict(company_id, budget, days_ahead) with the random source in state
\* s, the clock in month mon and a date range of ndates dates: the list
\* returned, the path taken ("short": too few rows; "error": the except
\* clause of predict; "swallowed": the except clause of _ml_prediction;
\* "ml" otherwise), the generation, the list the budget loop ran over and
\* the list _ml_prediction returned (<<>> when it was not called).
Predict(company_id, budget, days_ahead, s, ndates, mon, f) ==
    LET g == GetSalesData(company_id, s, ndates)
        ml == MlPrediction(g.table, days_ahead, mon, f)
        adj == ApplySeasonalAdjustments(ml, mon)
        path == IF MlRaises(g.table, days_ahead) THEN "swallowed" ELSE "ml"
    IN  IF g.err THEN ViaFallback(budget, days_ahead, "error", g, <<>>)
        ELSE IF ~EnoughData(g.table) THEN ViaFallback(budget, days_ahead, "short", g, <<>>)
        ELSE IF ~Truthy(budget)
        THEN [val |-> adj, path |-> path, data |-> g, offered |-> <<>>, forecast |-> ml]
        ELSE IF CostingRaises(adj) THEN ViaFallback(budget, days_ahead, "error", g, ml)
        ELSE [val |-> ApplyBudgetConstraints(adj, budget[1]), path |-> path, data |-> g,
              offered |-> CostedSorted(adj), forecast |-> ml]

----------------------------------------------------------------------------
\* generate_recommendations

\* Confidences are fractions with positive denominators; the sort compares
\* them through a common denominator.
\* (InsertByConfidenceUnstable: ties put the later item first.)
RECURSIVE InsertByConfidenceUnstable(_, _)
InsertByConfidenceUnstable(sorted, x) ==
    IF sorted = <<>> THEN <<x>>
    ELSE IF Head(sorted).confidence.num * x.confidence.den
              > x.confidence.num * Head(sorted).confidence.den
         THEN <<Head(sorted)>> \o InsertByConfidenceUnstable(Tail(sorted), x)
    ELSE <<x>> \o sorted
RECURSIVE InsertByConfidence(_, _)
InsertByConfidence(sorted, x) ==
    IF sorted = <<>> THEN <<x>>
    ELSE IF Head(sorted).confidence.num * x.confidence.den
              >= x.confidence.num * Head(sorted).confidence.den
         THEN <<Head(sorted)>> \o InsertByConfidence(Tail(sorted), x)
    ELSE <<x>> \o sorted

RECURSIVE SortByConfidence(_, _)
SortByConfidence(s, n) ==
    IF n = 0 THEN <<>> ELSE InsertByConfidence(SortByConfidence(s, n - 1), s[n])

\* sorted(predictions, key=confidence, reverse=True)[:3]
TopItems(preds) == Prefix(SortByConfidence(preds, Len(preds)), TopN)

\* sum(pred.get(field, 0) for pred in items)
RECURSIVE SumField(_, _)
SumField(items, field) ==
    IF items = <<>> THEN 0
    ELSE (IF field \in DOMAIN Head(items) THEN Head(items)[field] ELSE 0)
         + SumField(Tail(items), field)

BudgetAllocation(top, budget) ==
    [type |-> "budget_allocation",
     title |-> <<"Optimal Budget Allocation for Rs", budget[1]>>,
     description |-> <<"Focus on top", Len(top), "high-confidence items for maximum ROI">>,
     items |-> top,
     total_investment |-> SumField(top, "investment_required"),
     expected_profit |-> SumField(top, "expected_profit"),
     roi |-> [num |-> SumField(top, "roi_percentage"), den |-> Len(top)]]

StockRecommendation(top) ==
    [type |-> "stock_recommendation",
     title |-> "Recommended Stock Levels",
     description |-> "Based on predicted demand, stock these items for the next 90 days",
     items |-> top,
     priority |-> "high"]

SeasonalPrep ==
    [type |-> "seasonal_prep",
     title |-> "Holiday Season Preparation",
     description |-> "Increase stock by 30-40% for holiday demand",
     action |-> "Consider bulk purchasing for high-demand items"]

\* Lines 265-284: the recommendation for the top items.
\* (MainRecommendationNotNone: the test written as `budget is not None`.)
MainRecommendationNotNone(preds, budget) ==
    IF budget # <<>>
    THEN IF SumField(TopItems(preds), "investment_required") > 0
         THEN <<BudgetAllocation(TopItems(preds), budget)>>
         ELSE <<>>
    ELSE <<StockRecommendation(TopItems(preds))>>
MainRecommendation(preds, budget) ==
    IF Truthy(budget)
    THEN IF SumField(TopItems(preds), "investment_required") > 0
         THEN <<BudgetAllocation(TopItems(preds), budget)>>
         ELSE <<>>
    ELSE <<StockRecommendation(TopItems(preds))>>

\* Lines 286-294.
\* (SeasonalRecommendationLate: October left out.)
SeasonalRecommendationLate(mon) == IF mon \in {11, 12} THEN <<SeasonalPrep>> ELSE <<>>
SeasonalRecommendation(mon) == IF mon \in {10, 11, 12} THEN <<SeasonalPrep>> ELSE <<>>

GenerateRecommendations(preds, budget, mon) ==
    IF preds = <<>> THEN <<>>
    ELSE MainRecommendation(preds, budget) \o SeasonalRecommendation(mon)

----------------------------------------------------------------------------
\* Actions.

\* The payment recommender and the business analyzer as constructed
\* (payment_recommender.py lines 15-18), nothing asked of them yet.
AdvisersIdle ==
    /\ payment_recommender = [models |-> <<>>, is_trained |-> FALSE, last_trained |-> <<>>]
    /\ payment_trained = {}
    /\ payment_status = <<>>
    /\ payment_data = <<>>
    /\ customer_data = <<>>
    /\ recommendation = <<>>
    /\ assessment = <<>>
    /\ query = <<>>
    /\ answer = <<>>
    /\ business_data = <<>>
    /\ summary = <<>>

Init ==
    /\ month \in Months
    /\ forest \in Forests
    /\ history = HistoryDays
    /\ rng = 0
    /\ pc = "idle"
    /\ req = <<>>
    /\ predictions = <<>>
    /\ recommendations = <<>>
    /\ offered = <<>>
    /\ generated = [c \in CompanyIds |-> [tables |-> {}, count |-> 0]]
    /\ forecast = <<>>
    /\ models = <<>>
    /\ scalers = <<>>
    /\ is_trained = FALSE
    /\ last_trained = <<>>
    /\ trained = {}
    /\ status = <<>>
    /\ api_key = <<>>
    /\ http = <<>>
    /\ AdvisersIdle

\* GET /debug/run_predictor: the data fetch alone.
DebugRunPredictor(company_id) ==
    /\ pc = "idle"
    /\ LET g == GetSalesData(company_id, rng, history)
       IN  /\ rng' = g.rng
           /\ generated' = Recorded(company_id, g)
    /\ UNCHANGED <<month, forest, history, pc, req, predictions, recommendations, offered>>
    /\ UNCHANGED <<forecast, predictorVars, trackVars, api_key, adviserVars>>

\* The other components' seeded generators (payment and business data):
\* np.random.seed(company_id) and then draws.
OtherSeededDraws(company_id, n) ==
    /\ pc = "idle"
    /\ SeedOk(company_id)
    /\ rng' = Advance(Seed(company_id, rng), n)
    /\ UNCHANGED <<month, forest, history, pc, req, predictions, recommendations, offered,
                   generated>>
    /\ UNCHANGED <<forecast, predictorVars, trackVars, api_key, adviserVars>>

\* A draw without seeding (the payment recommender's fallback record).
UnseededDraw ==
    /\ pc = "idle"
    /\ rng' = RngNext(rng)
    /\ UNCHANGED <<month, forest, history, pc, req, predictions, recommendations, offered,
                   generated>>
    /\ UNCHANGED <<forecast, predictorVars, trackVars, api_key, adviserVars>>

\* The wall clock reaches the next month.
ClockTick ==
    /\ pc = "idle"
    /\ month' = (month % 12) + 1
    /\ UNCHANGED <<forest, history, rng, pc, req, predictions, recommendations, offered,
                   generated>>
    /\ UNCHANGED <<forecast, predictorVars, trackVars, api_key, adviserVars>>

\* POST /predict/demand, first call: demand_predictor.predict (line 146).
PredictDemand(company_id, budget, days_ahead) ==
    /\ pc = "idle"
    /\ LET r == Predict(company_id, budget, days_ahead, rng, history, month, forest)
       IN  /\ predictions' = r.val
           /\ offered' = r.offered
           /\ forecast' = r.forecast
           /\ rng' = r.data.rng
           /\ req' = [company_id |-> company_id, budget |-> budget,
                      days_ahead |-> days_ahead, path |-> r.path]
    /\ recommendations' = <<>>
    /\ pc' = "predicted"
    /\ UNCHANGED <<month, forest, history, generated>>
    /\ UNCHANGED <<predictorVars, trackVars, api_key, adviserVars>>

\* POST /predict/demand, second call: generate_recommendations (line 153).
Recommend ==
    /\ pc = "predicted"
    /\ recommendations' = GenerateRecommendations(predictions, req.budget, month)
    /\ pc' = "responded"
    /\ UNCHANGED <<month, forest, history, rng, req, predictions, offered, generated>>
    /\ UNCHANGED <<forecast, predictorVars, trackVars, api_key, adviserVars>>

\* The response is returned (line 157); nothing of the request is kept.
Respond ==
    /\ pc = "responded"
    /\ pc' = "idle"
    /\ req' = <<>>
    /\ predictions' = <<>>
    /\ recommendations' = <<>>
    /\ offered' = <<>>
    /\ forecast' = <<>>
    /\ UNCHANGED <<month, forest, history, rng, generated>>
    /\ UNCHANGED <<predictorVars, trackVars, api_key, adviserVars>>

----------------------------------------------------------------------------
\* train and get_status of the shared DemandPredictor.

\* Line 303: the least number of rows training accepts.
TrainMinRows == 30

\* demand_predictor.train(company_id) (lines 298-320).  The fetch raises
\* for an id that cannot seed the random source and the except clause
\* returns False; so does a table that is too small.  _ml_prediction keeps
\* its own failures to itself and its result is dropped.  The two fields
\* are assigned before _save_model, whose write to disk may fail: train
\* then returns False with the fields already set.
Train(company_id) ==
    /\ pc = "idle"
    /\ LET g == GetSalesData(company_id, rng, history)
       IN  /\ rng' = g.rng
           /\ IF g.err \/ Len(g.table) < TrainMinRows
              THEN UNCHANGED <<is_trained, last_trained, trained>>
              ELSE /\ is_trained' = TRUE
                   /\ last_trained' = <<month>>
                   /\ \E saved \in BOOLEAN :
                         trained' = IF saved THEN trained \cup {company_id} ELSE trained
    /\ UNCHANGED <<month, forest, history, pc, req, predictions, recommendations, offered,
                   generated, forecast, models, scalers, status, api_key, adviserVars>>

\* The dictionary get_status(company_id) builds (lines 343-349);
\* model_accuracy in hundredths, <<>> for None.
StatusOf(company_id, table) ==
    [company_id |-> company_id,
     raised |-> FALSE,
     is_trained |-> is_trained,
     last_trained |-> last_trained,
     data_points_available |-> Len(table),
     model_accuracy |-> IF is_trained THEN <<85>> ELSE <<>>,
     ready_for_prediction |-> TRUE]

\* demand_predictor.get_status(company_id) (lines 341-349): the fetch
\* inside the dictionary raises for an id that cannot seed the source.
GetStatus(company_id) ==
    /\ pc = "idle"
    /\ LET g == GetSalesData(company_id, rng, history)
       IN  /\ rng' = g.rng
           /\ status' = IF g.err
                        THEN <<[company_id |-> company_id, raised |-> TRUE]>>
                        ELSE <<StatusOf(company_id, g.table)>>
    /\ UNCHANGED <<month, forest, history, pc, req, predictions, recommendations, offered,
                   generated, forecast, predictorVars, trained, api_key, adviserVars>>

----------------------------------------------------------------------------
\* The key check (utils/auth.py) and the routes of main.py.

Routes ==
    {"/", "/health", "/debug/ping", "/debug/run_predictor", "/predict/demand",
     "/recommend/payments", "/insights/business", "/query", "/train", "/status"}

\* The routes whose handler declares Depends(verify_api_key).
Secured == Routes \ {"/", "/health"}

\* Values of AI_API_KEY, <<>> when the variable is not set.
ApiKeys == {<<>>, <<"">>, <<"k1">>}
\* Values of the X-API-KEY header, <<>> when the header is absent.
Headers == {<<>>, <<"">>, <<"k1">>, <<"k2">>}

\* verify_api_key (lines 9-23): TRUE when it returns True, FALSE when it
\* raises the 401.
\* (VerifyApiKeyAnyKey: the comparison with the expected key left out.
\* VerifyApiKeyEmptyCounts: an empty AI_API_KEY taken for a configured key.)
VerifyApiKeyEmptyCounts(expected, key) ==
    IF expected = <<>> THEN TRUE
    ELSE ~(key = <<>> \/ key[1] = "" \/ key # expected)
VerifyApiKeyAnyKey(expected, key) ==
    IF expected = <<>> \/ expected[1] = "" THEN TRUE
    ELSE ~(key = <<>> \/ key[1] = "")
VerifyApiKey(expected, key) ==
    IF expected = <<>> \/ expected[1] = "" THEN TRUE
    ELSE ~(key = <<>> \/ key[1] = "" \/ key # expected)

\* The dependencies of a route let a request through.
Admits(route, header) == route \in Secured => VerifyApiKey(api_key, header)

\* A handler's body run without the HTTP layer around it.
Call(Body) == Body /\ UNCHANGED http

\* A request that the dependencies let through, the one before it having
\* been answered: the handler's body runs,
\* and the answer is the handler's (a document, or its own error).
Serve(route, header, Body) ==
    /\ pc = "idle"
    /\ http = <<>>
    /\ Admits(route, header)
    /\ Body
    /\ http' = <<[route |-> route, header |-> header, status |-> "handler", entered |-> TRUE]>>

\* A request that verify_api_key refuses: the 401 is the answer and the
\* handler is not called.
Refuse(route, header) ==
    /\ pc = "idle"
    /\ http = <<>>
    /\ ~Admits(route, header)
    /\ http' = <<[route |-> route, header |-> header, status |-> "401", entered |-> FALSE]>>
    /\ UNCHANGED <<month, forest, history, rng, pc, req, predictions, recommendations,
                   offered, generated, forecast, predictorVars, trackVars, api_key, adviserVars>>

\* The answer has gone out; the next request can be taken up.
Sent ==
    /\ pc = "idle"
    /\ http # <<>>
    /\ http' = <<>>
    /\ UNCHANGED <<month, forest, history, rng, pc, req, predictions, recommendations,
                   offered, generated, forecast, predictorVars, trackVars, api_key, adviserVars>>

\* root, health_check and debug_ping return a constant document.
Constant ==
    UNCHANGED <<month, forest, history, rng, pc, req, predictions, recommendations,
                offered, generated, forecast, predictorVars, trackVars, api_key, adviserVars>>

\* The demand-prediction endpoint under a running clock.
Next ==
    \/ \E c \in CompanyIds, b \in Budgets, h \in Horizons : Call(PredictDemand(c, b, h))
    \/ Call(Recommend)
    \/ Call(Respond)
    \/ Call(ClockTick)

Spec == Init /\ [][Next]_vars

\* The data generator among the other users of the random source.
NextData ==
    \/ \E c \in CompanyIds : Call(DebugRunPredictor(c))
    \/ \E c \in CompanyIds, n \in 1..MaxOtherDraws : Call(OtherSeededDraws(c, n))
    \/ Call(UnseededDraw)

SpecData == Init /\ [][NextData]_vars

\* The endpoint over a data source whose date range may have been cut short.
InitForced ==
    /\ month \in Months
    /\ forest \in Forests
    /\ history \in ForcedHistories
    /\ rng = 0
    /\ pc = "idle"
    /\ req = <<>>
    /\ predictions = <<>>
    /\ recommendations = <<>>
    /\ offered = <<>>
    /\ generated = [c \in CompanyIds |-> [tables |-> {}, count |-> 0]]
    /\ forecast = <<>>
    /\ models = <<>>
    /\ scalers = <<>>
    /\ is_trained = FALSE
    /\ last_trained = <<>>
    /\ trained = {}
    /\ status = <<>>
    /\ api_key = <<>>
    /\ http = <<>>
    /\ AdvisersIdle

SpecForced == InitForced /\ [][Next]_vars

\* The shared predictor under training, status and prediction calls for
\* several companies, with the other components drawing from the random
\* source in between.
TrainHistories == {3, HistoryDays}
TrainMonths == {7, 11}
TrainBudgets == {<<>>, <<10000>>}
TrainHorizons == {60}

InitTrain ==
    /\ month \in TrainMonths
    /\ forest \in Forests
    /\ history \in TrainHistories
    /\ rng = 0
    /\ pc = "idle"
    /\ req = <<>>
    /\ predictions = <<>>
    /\ recommendations = <<>>
    /\ offered = <<>>
    /\ generated = [c \in CompanyIds |-> [tables |-> {}, count |-> 0]]
    /\ forecast = <<>>
    /\ models = <<>>
    /\ scalers = <<>>
    /\ is_trained = FALSE
    /\ last_trained = <<>>
    /\ trained = {}
    /\ status = <<>>
    /\ api_key = <<>>
    /\ http = <<>>
    /\ AdvisersIdle

NextTrain ==
    \/ \E c \in CompanyIds : Call(Train(c))
    \/ \E c \in CompanyIds : Call(GetStatus(c))
    \/ \E c \in CompanyIds, b \in TrainBudgets, h \in TrainHorizons :
          Call(PredictDemand(c, b, h))
    \/ Call(Recommend)
    \/ Call(Respond)
    \/ \E c \in CompanyIds, n \in 1..MaxOtherDraws : Call(OtherSeededDraws(c, n))

SpecTrain == InitTrain /\ [][NextTrain]_vars

\* The service behind its key check: every route, with and without the key.
AuthCompanies == {-1, 1}
AuthBudgets == {<<>>, <<1000>>}
AuthHorizons == {1}

InitAuth ==
    /\ month = 1
    /\ forest = "mean"
    /\ history = HistoryDays
    /\ rng = 0
    /\ pc = "idle"
    /\ req = <<>>
    /\ predictions = <<>>
    /\ recommendations = <<>>
    /\ offered = <<>>
    /\ generated = [c \in CompanyIds |-> [tables |-> {}, count |-> 0]]
    /\ forecast = <<>>
    /\ models = <<>>
    /\ scalers = <<>>
    /\ is_trained = FALSE
    /\ last_trained = <<>>
    /\ trained = {}
    /\ status = <<>>
    /\ api_key \in ApiKeys
    /\ http = <<>>
    /\ AdvisersIdle

NextAuth ==
    \/ \E r \in Routes, k \in Headers : Refuse(r, k)
    \/ \E k \in Headers : Serve("/", k, Constant)
    \/ \E k \in Headers : Serve("/health", k, Constant)
    \/ \E k \in Headers : Serve("/debug/ping", k, Constant)
    \/ \E k \in Headers, c \in AuthCompanies :
          Serve("/debug/run_predictor", k, DebugRunPredictor(c))
    \/ \E k \in Headers, c \in AuthCompanies, b \in AuthBudgets, h \in AuthHorizons :
          Serve("/predict/demand", k, PredictDemand(c, b, h))
    \/ Call(Recommend)
    \/ Call(Respond)
    \/ \E k \in Headers, c \in AuthCompanies :
          Serve("/recommend/payments", k, OtherSeededDraws(c, MaxOtherDraws))
    \/ \E k \in Headers, c \in AuthCompanies :
          Serve("/insights/business", k, OtherSeededDraws(c, 1))
    \/ \E k \in Headers, c \in AuthCompanies :
          Serve("/query", k, OtherSeededDraws(c, 1))
    \/ \E k \in Headers, c \in AuthCompanies : Serve("/train", k, Train(c))
    \/ \E k \in Headers, c \in AuthCompanies : Serve("/status", k, GetStatus(c))
    \/ Sent

SpecAuth == InitAuth /\ [][NextAuth]_vars

\* The endpoint asked about an established and a new business.
NewBusinessIds == {1, 999}
NewBusinessBudgets == {<<>>, <<10000>>}

NextNewBusiness ==
    \/ \E c \in NewBusinessIds, b \in NewBusinessBudgets, h \in Horizons :
          Call(PredictDemand(c, b, h))
    \/ Call(Recommend)
    \/ Call(Respond)

SpecNewBusiness == Init /\ [][NextNewBusiness]_vars

----------------------------------------------------------------------------
\* Properties.

Served == pc # "idle"
BudgetRan == Served /\ Truthy(req.budget)
FallbackReason == "Based on industry trends and market analysis"
MlReason == "Based on historical sales patterns and machine learning"
AtLeast(c, n, d) == n * c.den <= c.num * d
AtMost(c, n, d) == c.num * d <= n * c.den

\* sum of investment_required over offered[1..n]
OfferedUpTo(n) == SumField(SubSeq(offered, 1, n), "investment_required")

\* C1 as stated: whenever predict has run the budget allocator, the
\* investment_required of the returned items sum to at most the budget.
C1_AsStated ==
    BudgetRan => SumField(predictions, "investment_required") <= req.budget[1]

\* C1 (amended): for every budget >= 0 handed to the budget allocator, on the
\* ML path and on the fallback path, the investment_required of the returned
\* items sum to at most the budget.
C1_TotalWithinBudget ==
    (BudgetRan /\ req.budget[1] >= 0)
        => SumField(predictions, "investment_required") <= req.budget[1]

C1_Witness ==
    /\ BudgetRan
    /\ Len(predictions) >= 2
    /\ SumField(predictions, "investment_required") = req.budget[1]

\* C2: in the allocator's result every item but possibly the last is a fully
\* accepted item, the result follows the sorted input position by position,
\* and a last item that was cut is the sorted input's item at that
\* position, i.e. the one right after the last fully accepted item, with
\* the remaining budget as its investment_required.
C2_OnePartialAfterAccepted ==
    BudgetRan =>
        /\ Len(predictions) <= Len(offered)
        /\ \A i \in DOMAIN predictions :
              \/ predictions[i] = offered[i]
              \/ /\ i = Len(predictions)
                 /\ predictions[i].item_name = offered[i].item_name
                 /\ predictions[i].investment_required = req.budget[1] - OfferedUpTo(i - 1)
                 /\ predictions[i].investment_required < offered[i].investment_required

C2_Witness ==
    /\ BudgetRan
    /\ Len(predictions) >= 2
    /\ predictions[Len(predictions)] # offered[Len(predictions)]
    /\ predictions[1] = offered[1]

\* C3 as stated: every returned forecast has
\* 0 <= predicted_demand_30d <= predicted_demand_60d <= predicted_demand_90d.
C3_AsStated ==
    Served => \A i \in DOMAIN predictions :
        /\ 0 <= predictions[i].predicted_demand_30d
        /\ predictions[i].predicted_demand_30d <= predictions[i].predicted_demand_60d
        /\ predictions[i].predicted_demand_60d <= predictions[i].predicted_demand_90d

\* C4: the confidence of a returned forecast is in [0.3, 1.0] when the ML
\* path made it and in [0.4, 0.6] when the fallback made it.
C4_ConfidenceRange ==
    Served => \A i \in DOMAIN predictions :
        /\ predictions[i].confidence.den > 0
        /\ predictions[i].reason = MlReason =>
              AtLeast(predictions[i].confidence, 3, 10) /\ AtMost(predictions[i].confidence, 1, 1)
        /\ predictions[i].reason = FallbackReason =>
              AtLeast(predictions[i].confidence, 4, 10) /\ AtMost(predictions[i].confidence, 6, 10)
        /\ predictions[i].reason \in {MlReason, FallbackReason}

\* The held-out targets of item_name in the table of this request sum to 0.
ZeroHeldOutMean(item_name) ==
    SumSeq(Targets(TestRows(ItemFrame(GetSalesData(req.company_id, 0, history).table,
                                      item_name)))) = 0

\* An ML result with a forecast above the floor and a forecast at the floor
\* whose held-out targets have mean 0.
C4_Witness ==
    /\ Served
    /\ req.path = "ml"
    /\ \E i \in DOMAIN predictions : ~AtMost(predictions[i].confidence, 3, 10)
    /\ \E i \in DOMAIN predictions :
          /\ predictions[i].confidence = [num |-> 3, den |-> 10]
          /\ ZeroHeldOutMean(predictions[i].item_name)

\* The sales table predict obtained has fewer than 10 rows.
ShortTable == Served /\ SeedOk(req.company_id) /\ history * Len(Items) < 10

\* The fallback item at position i is the catalog's, up to its 90-day demand.
CatalogItemAt(i) ==
    /\ predictions[i].item_name = DefaultItems[i]
    /\ predictions[i].predicted_demand_30d = 50 + 25 * (i - 1)
    /\ predictions[i].predicted_demand_60d = 2 * (50 + 25 * (i - 1))
    /\ predictions[i].confidence = [num |-> Max(4, 6 - (i - 1)), den |-> 10]
    /\ predictions[i].reason = FallbackReason

\* C5 as stated: with fewer than 10 rows predict returns all five fallback
\* items with their catalog demands and confidences, for every budget.
C5_AsStated ==
    ShortTable =>
        /\ Len(predictions) = 5
        /\ \A i \in DOMAIN predictions :
              CatalogItemAt(i) /\ predictions[i].predicted_demand_90d = 3 * (50 + 25 * (i - 1))

\* C5 (amended): with fewer than 10 rows predict returns the fallback
\* generator's output and no ML result: all five catalog items when no
\* budget (or a budget of 0) is given; with a non-zero budget the leading
\* catalog items the budget allocator kept, in catalog order, the last of
\* them possibly cut to the remaining budget.
C5_FallbackOnShortTable ==
    ShortTable =>
        /\ ~Truthy(req.budget) => Len(predictions) = 5
        /\ Len(predictions) <= 5
        /\ \A i \in DOMAIN predictions :
              /\ CatalogItemAt(i)
              /\ \/ predictions[i].predicted_demand_90d = 3 * (50 + 25 * (i - 1))
                 \/ Truthy(req.budget) /\ i = Len(predictions)

C5_Witness ==
    /\ ShortTable
    /\ Truthy(req.budget)
    /\ Len(predictions) \in 2..4
    /\ predictions[Len(predictions)].predicted_demand_90d # 3 * (50 + 25 * (Len(predictions) - 1))

\* C6 as stated: when a step of the forecasting path fails, predict returns
\* the fallback generator's output.
C6_AsStated ==
    (Served /\ req.path \in {"error", "swallowed"})
        => predictions = FallbackPrediction(req.budget, req.days_ahead)

\* C7 as stated: on the fallback path with a budget, every returned item is
\* costed at 25%: roi_percentage = 25 and expected_profit = 0.25 *
\* investment_required.
C7_AsStated ==
    (BudgetRan /\ req.path \in {"error", "short"}) =>
        \A i \in DOMAIN predictions :
            /\ predictions[i].roi_percentage = 25
            /\ predictions[i].expected_profit = 25 * predictions[i].investment_required

\* C8: all the tables generated for one company identifier are the same
\* table, whatever was drawn from the random source in between.
C8_SameTable ==
    \A c \in CompanyIds : Cardinality(generated[c].tables) <= 1

\* Two generations for one identifier, generations for another one, and a
\* random source that is not where a generation leaves it.
C8_Witness ==
    \E c, d \in CompanyIds :
        /\ c # d
        /\ generated[c].count >= 2
        /\ generated[d].count >= 1
        /\ rng # GetSalesData(c, rng, history).rng
        /\ rng # GetSalesData(d, rng, history).rng

RecsOfType(ty) == SelectSeq(recommendations, LAMBDA r : r.type = ty)

Responded == pc = "responded"

\* The budget_allocation record sums up the top items.
SumsUpTopItems(r) ==
    /\ r.items = TopItems(predictions)
    /\ Len(r.items) = Min(3, Len(predictions))
    /\ r.total_investment = SumField(r.items, "investment_required")
    /\ r.expected_profit = SumField(r.items, "expected_profit")
    /\ r.roi = [num |-> SumField(r.items, "roi_percentage"), den |-> Len(r.items)]

\* C9 as stated: on a non-empty list, exactly one budget_allocation if a
\* budget was given, otherwise exactly one stock_recommendation.
C9_AsStated ==
    (Responded /\ predictions # <<>>) =>
        IF req.budget # <<>>
        THEN /\ Len(RecsOfType("budget_allocation")) = 1
             /\ Len(RecsOfType("stock_recommendation")) = 0
        ELSE /\ Len(RecsOfType("stock_recommendation")) = 1
             /\ Len(RecsOfType("budget_allocation")) = 0

\* C9 (amended): on a non-empty list returned by predict for the same
\* budget, generate_recommendations emits exactly one budget_allocation if
\* a non-zero budget was given (total_investment and expected_profit the
\* sums, roi the mean, over the top 3 items), and otherwise (no budget, or a
\* budget of 0) exactly one stock_recommendation listing the top 3 items.
C9_OneMainRecommendation ==
    (Responded /\ predictions # <<>>) =>
        IF req.budget # <<>> /\ req.budget[1] # 0
        THEN /\ Len(RecsOfType("budget_allocation")) = 1
             /\ Len(RecsOfType("stock_recommendation")) = 0
             /\ SumsUpTopItems(RecsOfType("budget_allocation")[1])
        ELSE /\ Len(RecsOfType("stock_recommendation")) = 1
             /\ Len(RecsOfType("budget_allocation")) = 0
             /\ RecsOfType("stock_recommendation")[1].items = TopItems(predictions)
             /\ Len(TopItems(predictions)) = Min(3, Len(predictions))

C9_Witness ==
    /\ Responded
    /\ req.budget = <<0>>
    /\ Len(predictions) > 3
    /\ Len(RecsOfType("stock_recommendation")) = 1

\* C10 as stated: seasonal_prep is emitted exactly when the month is
\* October, November or December, for every prediction list.
C10_AsStated ==
    Responded => (Len(RecsOfType("seasonal_prep")) = 1 <=> month \in {10, 11, 12})

\* C10 (amended): for every non-empty prediction list and every budget,
\* seasonal_prep is emitted (once) exactly when the month is October,
\* November or December; for an empty list nothing is emitted in any month.
C10_SeasonalPrep ==
    Responded =>
        IF predictions # <<>>
        THEN /\ Len(RecsOfType("seasonal_prep")) = 1 <=> month \in {10, 11, 12}
             /\ Len(RecsOfType("seasonal_prep")) <= 1
        ELSE recommendations = <<>>

C10_Witness ==
    /\ Responded
    /\ month = 10
    /\ predictions # <<>>
    /\ Len(RecsOfType("seasonal_prep")) = 1

----------------------------------------------------------------------------
\* The key check.

\* A key is configured: AI_API_KEY is set to a non-empty string.
KeyConfigured == api_key # <<>> /\ api_key[1] # ""
\* The request recorded in h came without the matching X-API-KEY header.
Unkeyed(h) == h # <<>> /\ h[1].header # api_key
\* Everything but the record of the last request.
behindGate ==
    <<month, forest, history, rng, pc, req, predictions, recommendations, offered,
      generated, forecast, predictorVars, trackVars, api_key, adviserVars>>

\* C11 as stated: with a key configured, a request to any route, / and
\* /health included, that lacks the matching header is answered 401 and its
\* handler is not entered.
C11_AsStated ==
    (KeyConfigured /\ Unkeyed(http))
        => (http[1].status = "401" /\ ~http[1].entered)

\* C11: with a key configured, a request without the matching X-API-KEY
\* header to any route other than / and /health is answered 401, its
\* handler is not entered and nothing behind the key check changes.
C11_SecuredRoutesRefuse ==
    [][(KeyConfigured /\ Unkeyed(http') /\ http'[1].route \in Secured)
          => (http'[1].status = "401" /\ ~http'[1].entered /\ UNCHANGED behindGate)]_vars

\* A request with a wrong key to the training route has been refused.
C11_Witness ==
    /\ KeyConfigured
    /\ http # <<>>
    /\ http[1].route = "/train"
    /\ http[1].header = <<"k2">>
    /\ http[1].status = "401"

----------------------------------------------------------------------------
\* Requests with a budget of at least one minimum order.

\* C12 as stated: for a request with a budget of at least 1000, predict
\* returns a non-empty list whose investment_required sum to at most the
\* budget, and generate_recommendations over that list and budget contains
\* a budget_allocation whose total_investment is at most the budget.
C12_AsStated ==
    (Responded /\ req.budget # <<>> /\ req.budget[1] >= MinOrder) =>
        /\ predictions # <<>>
        /\ SumField(predictions, "investment_required") <= req.budget[1]
        /\ \E i \in DOMAIN recommendations :
              /\ recommendations[i].type = "budget_allocation"
              /\ recommendations[i].total_investment <= req.budget[1]

----------------------------------------------------------------------------
\* The costing fields.

CostFields == {"investment_required", "expected_profit", "roi_percentage"}

----------------------------------------------------------------------------
\* The trained state of the shared predictor.

\* get_status has answered (its data fetch did not raise).
Answered == status # <<>> /\ ~status[1].raised

\* C14 as stated: get_status(c) reports is_trained = true and a non-null
\* model_accuracy only if train(c) has returned True for that same c.
C14_AsStated ==
    (Answered /\ status[1].is_trained /\ status[1].model_accuracy # <<>>)
        => status[1].company_id \in trained

\* What predict returns for the request r in a process that has served
\* nothing yet.
FreshResult(r) ==
    Predict(r.company_id, r.budget, r.days_ahead, 0, history, month, forest).val

\* C15: predict and generate_recommendations leave models, scalers,
\* is_trained and last_trained as they were, and predict returns what it
\* returns for the same company, budget, horizon and date in a fresh
\* process, whatever train, get_status and predict calls came before.
C15_NoSharedState ==
    [][(pc' # pc /\ pc' # "idle")
          => (UNCHANGED predictorVars /\ predictions' = FreshResult(req'))]_vars

\* predict has answered for company 2 from the ML path after company 1 was
\* trained and its status read.
C15_Witness ==
    /\ pc = "predicted"
    /\ req.company_id = 2
    /\ req.path = "ml"
    /\ predictions # <<>>
    /\ is_trained
    /\ 1 \in trained
    /\ status # <<>>
    /\ status[1].company_id = 1

----------------------------------------------------------------------------
\* The forecaster's buckets.

\* The per-day predictions behind the forecast of the item called name in
\* the request being served.
PerDay(name) ==
    FuturePredictions(ItemFrame(GetSalesData(req.company_id, 0, history).table, name),
                      req.days_ahead, month, forest)

\* C16 as stated: for every horizon h >= 1 the 30-, 60- and 90-day buckets
\* of a forecast are the truncated sums of the first min(30, h), min(60, h)
\* and min(90, h) per-day predictions.
C16_AsStated ==
    (Served /\ req.path = "ml" /\ req.days_ahead >= 1) =>
        \A i \in DOMAIN forecast :
            LET future == PerDay(forecast[i].item_name)
                h == req.days_ahead
            IN  /\ forecast[i].predicted_demand_30d = Bucket(future, Min(30, h))
                /\ forecast[i].predicted_demand_60d = Bucket(future, Min(60, h))
                /\ forecast[i].predicted_demand_90d = Bucket(future, Min(90, h))

----------------------------------------------------------------------------
\* The seasonal adjuster.

\* The adjuster's output as the request shows it: the returned list when no
\* budget was applied, otherwise the list the budget loop ran over.
AdjusterOutput == IF Truthy(req.budget) THEN offered ELSE predictions

\* C17: the adjuster keeps the length and the order of the forecaster's
\* list and every field but predicted_demand_90d, which becomes int(1.3 * v)
\* in November and December, int(0.9 * v) in June, July and August, and
\* stays v in every other month.
C17_OnlyNinetyDayBucket ==
    (Served /\ req.path = "ml") =>
        /\ Len(AdjusterOutput) = Len(forecast)
        /\ \A i \in DOMAIN forecast :
              LET before == forecast[i]
                  after == AdjusterOutput[i]
                  v == before.predicted_demand_90d
              IN  /\ after.item_name = before.item_name
                  /\ after.predicted_demand_30d = before.predicted_demand_30d
                  /\ after.predicted_demand_60d = before.predicted_demand_60d
                  /\ after.avg_daily_demand = before.avg_daily_demand
                  /\ after.confidence = before.confidence
                  /\ after.reason = before.reason
                  /\ after.predicted_demand_90d =
                        IF month \in {11, 12} THEN (13 * v) \div 10
                        ELSE IF month \in {6, 7, 8} THEN (9 * v) \div 10
                        ELSE v

\* In December a forecast has come back with a 90-day bucket that the
\* adjuster has raised.
C17_Witness ==
    /\ Served
    /\ req.path = "ml"
    /\ req.budget = <<>>
    /\ month = 12
    /\ predictions # <<>>
    /\ predictions[1].predicted_demand_90d > forecast[1].predicted_demand_90d

----------------------------------------------------------------------------
\* The budget loop.

\* The number of leading items of the offered list that fit the budget one
\* after the other.
Fitting ==
    CHOOSE k \in 0..Len(offered) :
        /\ \A j \in 1..k : OfferedUpTo(j) <= req.budget[1]
        /\ k < Len(offered) => OfferedUpTo(k + 1) > req.budget[1]

\* C18: the loop accepts the leading items that fit, whole and in list
\* order; at the first item that does not fit it emits a partial item if and
\* only if what is left of the budget is at least 1000; the partial item
\* invests exactly what is left (the total is then the budget), with
\* predicted_demand_90d = int(left / 100) and expected_profit = 0.3 * left;
\* and nothing after the first item that does not fit is returned.
C18_GreedyThenOnePartial ==
    BudgetRan =>
        LET k == Fitting
            left == req.budget[1] - OfferedUpTo(k)
        IN  /\ \A j \in 1..k : j \in DOMAIN predictions /\ predictions[j] = offered[j]
            /\ IF k < Len(offered) /\ left >= 1000
               THEN /\ Len(predictions) = k + 1
                    /\ predictions[k + 1] =
                          [offered[k + 1] EXCEPT !.investment_required = left,
                                                 !.predicted_demand_90d = left \div 100,
                                                 !.expected_profit = 30 * left]
                    /\ SumField(predictions, "investment_required") = req.budget[1]
               ELSE Len(predictions) = k

\* The loop has stopped at an item that did not fit and has emitted it as a
\* partial item, while an item further down the list would still have
\* fitted whole.
C18_Witness ==
    /\ BudgetRan
    /\ Fitting >= 1
    /\ Fitting + 1 < Len(offered)
    /\ Len(predictions) = Fitting + 1
    /\ predictions[Fitting + 1].investment_required = req.budget[1] - OfferedUpTo(Fitting)
    /\ \E j \in (Fitting + 2)..Len(offered) :
          OfferedUpTo(Fitting) + offered[j].investment_required <= req.budget[1]

----------------------------------------------------------------------------
\* The sort by ROI.

\* The item names of the list handed to the budget allocator, in its order:
\* the forecaster's list on the ML path, the catalog on the fallback path.
InputNames ==
    IF req.path \in {"ml", "swallowed"}
    THEN [i \in DOMAIN forecast |-> forecast[i].item_name]
    ELSE DefaultItems

\* C19: every item is given the same ROI, so the sort leaves the list in
\* its input order, and the items returned are the leading items of the
\* input list, in that order.
C19_SortKeepsInputOrder ==
    BudgetRan =>
        /\ \A i \in DOMAIN offered : offered[i].roi_percentage = 30
        /\ [i \in DOMAIN offered |-> offered[i].item_name] = InputNames
        /\ Len(predictions) <= Len(InputNames)
        /\ \A i \in DOMAIN predictions : predictions[i].item_name = InputNames[i]

\* The allocator has returned two or more of five forecast items, and they
\* are the first items of the forecaster's list.
C19_Witness ==
    /\ BudgetRan
    /\ req.path = "ml"
    /\ Len(forecast) = 5
    /\ Len(predictions) >= 2
    /\ Len(predictions) < 5
    /\ predictions[1].item_name = forecast[1].item_name
    /\ predictions[2].item_name = forecast[2].item_name

----------------------------------------------------------------------------
\* Costing a list with a zero demand.

\* The list predict handed to the budget allocator from the ML path.
Handed == ApplySeasonalAdjustments(forecast, month)

\* C20 as stated: for every list of forecasts with non-negative 90-day
\* demands, a demand of 0 included, and every positive budget, the
\* allocator costs every item at investment_required = 100 * demand,
\* expected_profit = 0.3 * investment_required and roi_percentage = 30, and
\* returns a list without raising an error.
C20_AsStated ==
    (BudgetRan /\ req.budget[1] > 0 /\ Handed # <<>>) =>
        /\ req.path # "error"
        /\ Len(offered) = Len(Handed)
        /\ \A i \in DOMAIN offered :
              /\ offered[i].investment_required = Handed[i].predicted_demand_90d * 100
              /\ offered[i].expected_profit = 30 * offered[i].investment_required
              /\ offered[i].roi_percentage = 30

----------------------------------------------------------------------------
\* The size of the generated table.

\* The table generated for company_id.
TableOf(company_id) == GetSalesData(company_id, 0, history).table

----------------------------------------------------------------------------
\* The top items of a recommendation.

\* Confidence a is greater than, or equal to, confidence b.
Above(a, b) == a.num * b.den > b.num * a.den
Level(a, b) == a.num * b.den = b.num * a.den

\* The number of forecasts of preds that come before the one at index i
\* when the list is ordered by falling confidence, equals in list order.
Rank(preds, i) ==
    Cardinality({j \in DOMAIN preds :
                    \/ Above(preds[j].confidence, preds[i].confidence)
                    \/ Level(preds[j].confidence, preds[i].confidence) /\ j < i})

\* items are the min(3, n) first forecasts of preds in that order.
IsTopThree(items, preds) ==
    /\ Len(items) = Min(3, Len(preds))
    /\ \A i \in DOMAIN preds :
          Rank(preds, i) < Len(items) => items[Rank(preds, i) + 1] = preds[i]

\* C22: the items of a budget_allocation or stock_recommendation are the
\* min(3, n) forecasts of highest confidence, in falling confidence, equal
\* confidences in their order in the list; and generate_recommendations
\* leaves the prediction list as it was.
C22_TopThreeStable ==
    [][(pc = "predicted" /\ pc' = "responded") =>
          /\ predictions' = predictions
          /\ \A k \in DOMAIN recommendations' :
                recommendations'[k].type \in {"budget_allocation", "stock_recommendation"}
                    => IsTopThree(recommendations'[k].items, predictions)]_vars

\* A stock_recommendation lists the first three of the five catalog items,
\* the third of which has the confidence of the two left out.
C22_Witness ==
    /\ Responded
    /\ Len(predictions) = 5
    /\ Level(predictions[3].confidence, predictions[4].confidence)
    /\ Level(predictions[3].confidence, predictions[5].confidence)
    /\ Len(RecsOfType("stock_recommendation")) = 1
    /\ RecsOfType("stock_recommendation")[1].items = SubSeq(predictions, 1, 3)

----------------------------------------------------------------------------
\* verify_api_key as the secured routes show it.

\* C23: verify_api_key lets every request through when AI_API_KEY is unset
\* or empty; when it is set, it lets through exactly the requests whose
\* X-API-KEY header equals it, and answers 401 to a missing or different
\* key.
C23_KeyCheck ==
    (http # <<>> /\ http[1].route \in Secured) =>
        /\ http[1].entered <=> (~KeyConfigured \/ http[1].header = api_key)
        /\ http[1].status = "401" <=> ~http[1].entered

\* With a key configured, a request carrying that key has entered the
\* handler of a secured route.
C23_Witness ==
    /\ http # <<>>
    /\ http[1].route = "/debug/ping"
    /\ KeyConfigured
    /\ http[1].header = api_key
    /\ http[1].entered
    /\ http[1].status = "handler"

----------------------------------------------------------------------------
\* The payment recommender (models/payment_recommender.py).

\* The demand predictor and the HTTP layer at rest, for the specifications
\* that exercise the other two components.
PredictorIdle ==
    /\ month = 1
    /\ forest = "mean"
    /\ history = HistoryDays
    /\ rng = 0
    /\ pc = "idle"
    /\ req = <<>>
    /\ predictions = <<>>
    /\ recommendations = <<>>
    /\ offered = <<>>
    /\ generated = [c \in CompanyIds |-> [tables |-> {}, count |-> 0]]
    /\ forecast = <<>>
    /\ models = <<>>
    /\ scalers = <<>>
    /\ is_trained = FALSE
    /\ last_trained = <<>>
    /\ trained = {}
    /\ status = <<>>
    /\ api_key = <<>>
    /\ http = <<>>

\* Line 72: the number of payment records the data source holds per customer.
RecordsPerCustomer == 10

\* customer_data['payment_days'].sum() and the number of completed
\* payments; the two means of lines 89 and 91 are these over Len(rows).
DaysSum(rows) == SumSeq([i \in DOMAIN rows |-> rows[i].payment_days])
TotalAmount(rows) == SumSeq([i \in DOMAIN rows |-> rows[i].amount])
Completed(rows) == Cardinality({i \in DOMAIN rows : rows[i].payment_status = "completed"})

\* (RiskLevelStrict: the day thresholds taken as strict.)
RiskLevelStrict(rows) ==
    IF DaysSum(rows) < 15 * Len(rows) /\ 10 * Completed(rows) >= 9 * Len(rows) THEN "low"
    ELSE IF DaysSum(rows) < 30 * Len(rows) /\ 10 * Completed(rows) >= 7 * Len(rows)
         THEN "medium"
         ELSE "high"

\* Lines 94-102: avg_payment_days <= 15 and on_time_rate >= 0.9, then
\* avg_payment_days <= 30 and on_time_rate >= 0.7, with both means
\* multiplied out.
RiskLevel(rows) ==
    IF DaysSum(rows) <= 15 * Len(rows) /\ 10 * Completed(rows) >= 9 * Len(rows) THEN "low"
    ELSE IF DaysSum(rows) <= 30 * Len(rows) /\ 10 * Completed(rows) >= 7 * Len(rows)
         THEN "medium"
         ELSE "high"

\* _generate_payment_strategy (lines 133-158): the approach and the
\* escalation threshold of each risk level.
GeneratePaymentStrategy(risk_level) ==
    IF risk_level = "low"
    THEN [approach |-> "friendly_reminder", escalation_threshold |-> 90]
    ELSE IF risk_level = "medium"
         THEN [approach |-> "structured_follow_up", escalation_threshold |-> 60]
         ELSE [approach |-> "aggressive_collection", escalation_threshold |-> 30]

\* _generate_customer_recommendation (lines 87-131).  Amounts are whole
\* rupees; recommended_payment is in tenths of a rupee, so that the
\* factors 0.8, 0.6 and 0.4 are exact.  The two means are kept as
\* <<sum, count>>.
GenerateCustomerRecommendation(rows) ==
    LET risk_level == RiskLevel(rows)
        total_amount == TotalAmount(rows)
    IN  [customer_id |-> rows[1].customer_id,
         current_credit_balance |-> total_amount,
         recommended_payment |->
             IF risk_level = "low" THEN Max(8 * total_amount, 50000)
             ELSE IF risk_level = "medium" THEN Max(6 * total_amount, 30000)
             ELSE Max(4 * total_amount, 20000),
         recommended_frequency |->
             IF risk_level = "low" THEN "monthly"
             ELSE IF risk_level = "medium" THEN "bi-weekly" ELSE "weekly",
         risk_level |-> risk_level,
         risk_score |-> IF risk_level = "low" THEN 1 ELSE IF risk_level = "medium" THEN 2 ELSE 3,
         payment_history_score |-> <<Completed(rows), Len(rows)>>,
         avg_payment_days |-> <<DaysSum(rows), Len(rows)>>,
         payment_strategy |-> GeneratePaymentStrategy(risk_level),
         priority |-> IF risk_level = "high" THEN "high"
                      ELSE IF risk_level = "medium" THEN "medium" ELSE "low"]

\* One customer's rows as the data source shapes them (lines 70-82): ten
\* records, the first half paid after d1 days and the rest after d2, the
\* first `late` of them delayed, each of the same amount.
PaymentDays == {7, 15, 30, 45, 60}
LateCounts == 0..4
Amounts == {1000, 5500, 9999}
CustomerRows(d1, d2, late, amount) ==
    [i \in 1..RecordsPerCustomer |->
        [customer_id |-> 1,
         payment_days |-> IF 2 * i <= RecordsPerCustomer THEN d1 ELSE d2,
         amount |-> amount,
         payment_status |-> IF i <= late THEN "delayed" ELSE "completed"]]
CustomerTables ==
    {CustomerRows(d1, d2, late, a) : d1 \in PaymentDays, d2 \in PaymentDays,
                                     late \in LateCounts, a \in Amounts}

\* recommend_payments hands one customer's rows to
\* _generate_customer_recommendation (lines 51-54).
InitCustomer ==
    /\ PredictorIdle
    /\ payment_recommender = [models |-> <<>>, is_trained |-> FALSE, last_trained |-> <<>>]
    /\ payment_trained = {}
    /\ payment_status = <<>>
    /\ payment_data = <<>>
    /\ customer_data \in CustomerTables
    /\ recommendation = <<>>
    /\ assessment = <<>>
    /\ query = <<>>
    /\ answer = <<>>
    /\ business_data = <<>>
    /\ summary = <<>>

RecommendCustomer ==
    /\ recommendation = <<>>
    /\ recommendation' = <<GenerateCustomerRecommendation(customer_data)>>
    /\ UNCHANGED <<month, forest, history, rng, pc, req, predictions, recommendations,
                   offered, generated, forecast, predictorVars, trackVars, api_key, http>>
    /\ UNCHANGED <<payment_recommender, payment_trained, payment_status, payment_data,
                   customer_data, assessment, analyzerVars>>

NextCustomer == RecommendCustomer

SpecCustomer == InitCustomer /\ [][NextCustomer]_vars

\* C24: a customer is low risk iff the average payment days are at most
\* 15 and at least nine payments in ten were on time, medium iff not low
\* and the average is at most 30 with at least seven in ten on time, and
\* high otherwise; score, priority and frequency follow the level, and the
\* recommended payment is the larger of the level's share of the total
\* (0.8, 0.6, 0.4) and its floor (5000, 3000, 2000).
C24_ThresholdRules ==
    recommendation # <<>> =>
        LET r == recommendation[1]
            n == Len(customer_data)
            days == DaysSum(customer_data)
            done == Completed(customer_data)
            total == TotalAmount(customer_data)
            low == days <= 15 * n /\ 10 * done >= 9 * n
            medium == ~low /\ days <= 30 * n /\ 10 * done >= 7 * n
        IN  /\ r.risk_level = "low" <=> low
            /\ r.risk_level = "medium" <=> medium
            /\ r.risk_level = "high" <=> (~low /\ ~medium)
            /\ r.risk_level = "low" =>
                  /\ r.risk_score = 1 /\ r.priority = "low"
                  /\ r.recommended_frequency = "monthly"
                  /\ r.recommended_payment = Max(8 * total, 50000)
            /\ r.risk_level = "medium" =>
                  /\ r.risk_score = 2 /\ r.priority = "medium"
                  /\ r.recommended_frequency = "bi-weekly"
                  /\ r.recommended_payment = Max(6 * total, 30000)
            /\ r.risk_level = "high" =>
                  /\ r.risk_score = 3 /\ r.priority = "high"
                  /\ r.recommended_frequency = "weekly"
                  /\ r.recommended_payment = Max(4 * total, 20000)

\* A customer exactly on both medium thresholds: an average of 30 days
\* with seven payments in ten on time.
C24_Witness ==
    /\ recommendation # <<>>
    /\ DaysSum(customer_data) = 30 * Len(customer_data)
    /\ 10 * Completed(customer_data) = 7 * Len(customer_data)
    /\ recommendation[1].risk_level = "medium"
    /\ recommendation[1].recommended_payment = 6 * TotalAmount(customer_data)

----------------------------------------------------------------------------
\* The payment data source, assess_payment_risk, train and get_status of
\* the payment recommender.

\* Line 67: the customers of every company.
Customers == 20
\* Line 293: the least number of rows training accepts.
PaymentTrainMinRows == 20

\* The rows _get_payment_data draws depend on the seed alone, so each
\* company has one table.  A table is described by how its customers
\* fall: the first `high` have a payment over 45 days, the next `both` one
\* over 45 days and one of 45, the next `medium` one of 45, the rest pay
\* within 15 days; `delayed` says whether any payment was delayed.
PaymentShapes ==
    {[high |-> h, both |-> b, medium |-> 7, delayed |-> TRUE] : h \in {0, 3, 7, 12}, b \in {0, 1}}
    \cup {[high |-> 0, both |-> 0, medium |-> 0, delayed |-> FALSE]}

\* Record j of customer i (lines 73-82); the invoice date is left out.
PaymentRow(shape, i, j) ==
    LET kind == IF i <= shape.high THEN "high"
                ELSE IF i <= shape.high + shape.both THEN "both"
                ELSE IF i <= shape.high + shape.both + shape.medium THEN "medium"
                ELSE "prompt"
    IN  [customer_id |-> i,
         payment_days |->
             IF kind = "high" THEN (IF j = 1 THEN 60 ELSE 7)
             ELSE IF kind = "both" THEN (IF j = 1 THEN 60 ELSE IF j = 2 THEN 45 ELSE 15)
             ELSE IF kind = "medium" THEN (IF j = 1 THEN 45 ELSE 30)
             ELSE (IF j % 2 = 1 THEN 7 ELSE 15),
         amount |-> 1000 + 900 * (j - 1),
         payment_status |-> IF shape.delayed /\ j = 1 THEN "delayed" ELSE "completed"]

PaymentRows(shape) ==
    [k \in 1..(Customers * RecordsPerCustomer) |->
        PaymentRow(shape, ((k - 1) \div RecordsPerCustomer) + 1,
                          ((k - 1) % RecordsPerCustomer) + 1)]

\* _get_payment_data(company_id) (lines 62-85): np.random.seed raises for
\* an id that cannot seed the source.
GetPaymentData(company_id) ==
    IF ~SeedOk(company_id) THEN [err |-> TRUE, table |-> <<>>]
    ELSE [err |-> FALSE, table |-> PaymentRows(payment_data[company_id])]

\* The random source after _get_payment_data(company_id): seeded and drawn
\* from, or left alone when the seed is refused.
AfterPaymentData(company_id, s) ==
    IF SeedOk(company_id) THEN Advance(Seed(company_id, s), MaxOtherDraws) ELSE s

\* payment_data[...]['customer_id'].unique() for the rows in `which`.
CustomerIds(table, which) == {table[k].customer_id : k \in which}
Over45(table) == {k \in DOMAIN table : table[k].payment_days > 45}
From31To45(table) ==
    {k \in DOMAIN table : table[k].payment_days > 30 /\ table[k].payment_days <= 45}

\* The level of lines 217-222 for risk_percentage = num / den.
OverallRisk(num, den) ==
    IF num <= 20 * den THEN "low" ELSE IF num <= 40 * den THEN "medium" ELSE "high"

\* Lines 203-236: the counts and the level; risk_percentage is kept as
\* <<numerator, denominator>>.
AssessTable(table) ==
    LET total_customers == Cardinality(CustomerIds(table, DOMAIN table))
        high_risk_customers == Cardinality(CustomerIds(table, Over45(table)))
        medium_risk_customers == Cardinality(CustomerIds(table, From31To45(table)))
        risk_percentage == IF total_customers > 0
                           THEN <<100 * high_risk_customers, total_customers>>
                           ELSE <<0, 1>>
    IN  [overall_risk_level |-> OverallRisk(risk_percentage[1], risk_percentage[2]),
         total_customers |-> total_customers,
         high_risk_count |-> high_risk_customers,
         medium_risk_count |-> medium_risk_customers,
         low_risk_count |-> total_customers - high_risk_customers - medium_risk_customers,
         risk_percentage |-> risk_percentage,
         fallback |-> FALSE]

\* _fallback_risk_assessment (lines 267-286).
FallbackRiskAssessment ==
    [overall_risk_level |-> "medium",
     total_customers |-> 5,
     high_risk_count |-> 1,
     medium_risk_count |-> 2,
     low_risk_count |-> 2,
     risk_percentage |-> <<20, 1>>,
     fallback |-> TRUE]

\* assess_payment_risk(company_id) (lines 199-241).
AssessPaymentRiskOf(company_id) ==
    LET g == GetPaymentData(company_id)
    IN  IF g.err THEN FallbackRiskAssessment ELSE AssessTable(g.table)

AssessPaymentRisk(company_id) ==
    /\ pc = "idle"
    /\ assessment' = <<[company_id |-> company_id, result |-> AssessPaymentRiskOf(company_id)]>>
    /\ rng' = AfterPaymentData(company_id, rng)
    /\ UNCHANGED <<month, forest, history, pc, req, predictions, recommendations,
                   offered, generated, forecast, predictorVars, trackVars, api_key>>
    /\ UNCHANGED <<payment_recommender, payment_trained, payment_status, payment_data,
                   customer_data, recommendation, analyzerVars>>

\* labels of line 299: 1 for a delayed payment.
Labels(rows) == [k \in DOMAIN rows |-> IF rows[k].payment_status = "delayed" THEN 1 ELSE 0]
Classes(labels) == {labels[k] : k \in DOMAIN labels}

\* accuracy_score on the rows held out (lines 306-313), as <<right, rows>>:
\* the classifier answers with the label most frequent in the training rows.
Accuracy(rows) ==
    LET train == Labels(TrainRows(rows))
        test == Labels(TestRows(rows))
        answer_ == IF 2 * SumSeq(train) > Len(train) THEN 1 ELSE 0
    IN  <<Cardinality({k \in DOMAIN test : test[k] = answer_}), Len(test)>>

\* self.models.get(company_id): <<>> for a missing entry.
ModelInfo(registry, company_id) ==
    IF company_id \in DOMAIN registry THEN <<registry[company_id]>> ELSE <<>>

\* PaymentRecommender.train(company_id) (lines 288-328): False when the
\* fetch raises, when there are too few rows or one class of labels only;
\* otherwise the registry entry of company_id is written, the two fields
\* are set and True is returned.
PaymentTrain(company_id) ==
    /\ pc = "idle"
    /\ rng' = AfterPaymentData(company_id, rng)
    /\ LET g == GetPaymentData(company_id)
       IN  IF \/ g.err
              \/ Len(g.table) < PaymentTrainMinRows
              \/ Cardinality(Classes(Labels(g.table))) < 2
           THEN UNCHANGED <<payment_recommender, payment_trained>>
           ELSE /\ payment_recommender' =
                      [models |-> [c \in DOMAIN payment_recommender.models \cup {company_id} |->
                                      IF c = company_id
                                      THEN [accuracy |-> Accuracy(g.table), trained_at |-> month]
                                      ELSE payment_recommender.models[c]],
                       is_trained |-> TRUE,
                       last_trained |-> <<month>>]
                /\ payment_trained' = payment_trained \cup {company_id}
    /\ UNCHANGED <<month, forest, history, pc, req, predictions, recommendations,
                   offered, generated, forecast, predictorVars, trackVars, api_key>>
    /\ UNCHANGED <<payment_status, payment_data, customer_data, recommendation, assessment,
                   analyzerVars>>

\* (PaymentStatusGlobal: the process-wide flag alone.)
PaymentStatusGlobal(company_id, table) ==
    [company_id |-> company_id,
     raised |-> FALSE,
     is_trained |-> payment_recommender.is_trained,
     last_trained |-> payment_recommender.last_trained,
     model_accuracy |-> IF payment_recommender.is_trained THEN <<<<1, 1>>>> ELSE <<>>,
     customers_analyzed |-> Len(table),
     ready_for_recommendations |-> TRUE]

\* The dictionary get_status(company_id) builds (lines 341-347).
PaymentStatusOf(company_id, table) ==
    [company_id |-> company_id,
     raised |-> FALSE,
     is_trained |-> payment_recommender.is_trained
                    /\ company_id \in DOMAIN payment_recommender.models,
     last_trained |-> payment_recommender.last_trained,
     model_accuracy |->
         IF ModelInfo(payment_recommender.models, company_id) = <<>> THEN <<>>
         ELSE <<ModelInfo(payment_recommender.models, company_id)[1].accuracy>>,
     customers_analyzed |-> Len(table),
     ready_for_recommendations |-> TRUE]

\* PaymentRecommender.get_status(company_id) (lines 337-347): the fetch
\* inside the dictionary raises for an id that cannot seed the source.
PaymentGetStatus(company_id) ==
    /\ pc = "idle"
    /\ rng' = AfterPaymentData(company_id, rng)
    /\ LET g == GetPaymentData(company_id)
       IN  payment_status' = IF g.err
                             THEN <<[company_id |-> company_id, raised |-> TRUE]>>
                             ELSE <<PaymentStatusOf(company_id, g.table)>>
    /\ UNCHANGED <<month, forest, history, pc, req, predictions, recommendations,
                   offered, generated, forecast, predictorVars, trackVars, api_key>>
    /\ UNCHANGED <<payment_recommender, payment_trained, payment_data, customer_data,
                   recommendation, assessment, analyzerVars>>

\* The payment recommender asked to assess, train and report for several
\* companies, one of them with an id the data source refuses.
PaymentCompanies == {1, 2}
PaymentIds == PaymentCompanies \cup {-1}

InitPayment ==
    /\ PredictorIdle
    /\ payment_recommender = [models |-> <<>>, is_trained |-> FALSE, last_trained |-> <<>>]
    /\ payment_trained = {}
    /\ payment_status = <<>>
    /\ payment_data \in [PaymentCompanies -> PaymentShapes]
    /\ customer_data = <<>>
    /\ recommendation = <<>>
    /\ assessment = <<>>
    /\ query = <<>>
    /\ answer = <<>>
    /\ business_data = <<>>
    /\ summary = <<>>

NextPayment ==
    \/ \E c \in PaymentIds : Call(AssessPaymentRisk(c))
    \/ \E c \in PaymentIds : Call(PaymentTrain(c))
    \/ \E c \in PaymentIds : Call(PaymentGetStatus(c))

SpecPayment == InitPayment /\ [][NextPayment]_vars

\* Customer c has a payment in the rows `which` of the table of company_id.
Among(company_id, which, c) ==
    \E k \in which : GetPaymentData(company_id).table[k].customer_id = c

\* C27 as stated: in every result of assess_payment_risk the three counts
\* are each at least 0, they sum to total_customers, and no customer is
\* counted in two buckets.
C27_AsStated ==
    assessment # <<>> =>
        LET r == assessment[1].result
            g == GetPaymentData(assessment[1].company_id)
        IN  /\ r.high_risk_count >= 0
            /\ r.medium_risk_count >= 0
            /\ r.low_risk_count >= 0
            /\ r.high_risk_count + r.medium_risk_count + r.low_risk_count = r.total_customers
            /\ ~r.fallback =>
                  \A c \in 1..Customers :
                      ~(/\ Among(assessment[1].company_id, Over45(g.table), c)
                        /\ Among(assessment[1].company_id, From31To45(g.table), c))

\* C28 as stated: in every assessment, the fallback one included,
\* overall_risk_level is low iff risk_percentage <= 20, medium iff it is
\* over 20 and at most 40, high iff over 40, and risk_percentage is
\* 100 * high_risk_count / total_customers.
C28_AsStated ==
    assessment # <<>> =>
        LET r == assessment[1].result
            num == r.risk_percentage[1]
            den == r.risk_percentage[2]
        IN  /\ r.overall_risk_level = "low" <=> num <= 20 * den
            /\ r.overall_risk_level = "medium" <=> (num > 20 * den /\ num <= 40 * den)
            /\ r.overall_risk_level = "high" <=> num > 40 * den
            /\ num * r.total_customers = 100 * r.high_risk_count * den

\* The registry entry of company c: <<>> when there is none.
Entry(registry, c) == IF c \in DOMAIN registry THEN <<registry[c]>> ELSE <<>>

\* C29: whenever get_status(c) of the payment recommender answers, it
\* reports is_trained = true exactly when an earlier train(c) for that same
\* c returned True and a non-null model_accuracy for exactly those c; and a
\* train(c) leaves the registry entry of every other identifier as it was.
C29_PerCompanyRegistry ==
    [][\A c \in PaymentIds :
          /\ (PaymentGetStatus(c) /\ ~payment_status'[1].raised) =>
                /\ payment_status'[1].company_id = c
                /\ payment_status'[1].is_trained <=> c \in payment_trained
                /\ payment_status'[1].model_accuracy # <<>> <=> c \in payment_trained
          /\ PaymentTrain(c) =>
                \A d \in PaymentIds \ {c} :
                    Entry(payment_recommender'.models, d) = Entry(payment_recommender.models, d)
      ]_vars

\* Company 1 has been trained, and get_status has since answered for
\* company 2 that it is not, the process-wide flag being set.
C29_Witness ==
    /\ payment_trained = {1}
    /\ payment_recommender.is_trained
    /\ payment_status # <<>>
    /\ payment_status[1].company_id = 2
    /\ ~payment_status[1].raised
    /\ ~payment_status[1].is_trained
    /\ payment_status[1].model_accuracy = <<>>

----------------------------------------------------------------------------
\* A failed training of the demand predictor.

\* C30 as stated: a train(c) of the demand predictor that returns False
\* leaves is_trained and last_trained as they were, and get_status reports
\* is_trained = true only after some train call has returned True.
C30_AsStated ==
    [][/\ \A c \in CompanyIds :
             (Train(c) /\ c \notin trained') => UNCHANGED <<is_trained, last_trained>>
       /\ (status' # <<>> /\ ~status'[1].raised /\ status'[1].is_trained) => trained' # {}
      ]_vars

----------------------------------------------------------------------------
\* The business analyzer (models/business_analyzer.py).

\* Line 104: the months of data the source holds.
DataMonths == 12

\* The rows _get_business_data draws (lines 111-159), described by their
\* shape: sales of 100000 a month and of `last` in the final month, a gross
\* profit of `margin` percent, expenses that come to `expense_pct` percent
\* of the sales, and `repeat` returning customers against `lost` ones.
BusinessShapes ==
    {[last |-> l, margin |-> m, expense_pct |-> e, repeat |-> r[1], lost |-> r[2]] :
        l \in {90000, 104000, 105000, 110000, 120000},
        m \in {15, 19, 20, 25, 30},
        e \in {45, 50, 60, 70, 75},
        r \in {<<30, 24>>, <<36, 24>>, <<42, 18>>, <<48, 12>>}}

\* Lines 111-120; profit_margin in hundredths of a percent.
MonthlySales(shape, mo) ==
    LET monthly_sales == IF mo = DataMonths THEN shape.last ELSE 100000
        gross_profit == (monthly_sales * shape.margin) \div 100
    IN  [month |-> mo,
         sales_amount |-> monthly_sales,
         gross_profit |-> gross_profit,
         profit_margin |-> (gross_profit * 10000) \div monthly_sales]

\* Lines 122-137: the total alone; the first month takes the remainder.
MonthlyExpenses(shape, mo) ==
    LET all == ((100000 * (DataMonths - 1) + shape.last) * shape.expense_pct) \div 100
        each == all \div DataMonths
    IN  [month |-> mo,
         total_expenses |-> IF mo = 1 THEN all - each * (DataMonths - 1) ELSE each]

\* Lines 139-148; retention_rate in ten-thousandths.
MonthlyCustomers(shape, mo) ==
    [month |-> mo,
     repeat_customers |-> shape.repeat,
     retention_rate |-> (shape.repeat * 10000) \div (shape.repeat + shape.lost)]

\* Lines 150-159; inventory_turnover in thousandths.
MonthlyInventory(shape, mo) ==
    [month |-> mo,
     items_sold |-> 300,
     items_ordered |-> 350,
     inventory_turnover |-> (300 * 1000) \div Max(350, 1)]

BusinessRows(shape) ==
    [sales |-> [mo \in 1..DataMonths |-> MonthlySales(shape, mo)],
     expenses |-> [mo \in 1..DataMonths |-> MonthlyExpenses(shape, mo)],
     customers |-> [mo \in 1..DataMonths |-> MonthlyCustomers(shape, mo)],
     inventory |-> [mo \in 1..DataMonths |-> MonthlyInventory(shape, mo)]]

\* _get_business_data(company_id) (lines 98-166): np.random.seed raises
\* for an id that cannot seed the source.
GetBusinessData(company_id) ==
    IF ~SeedOk(company_id) THEN [err |-> TRUE, data |-> <<>>]
    ELSE [err |-> FALSE, data |-> BusinessRows(business_data)]

\* The random source after _get_business_data(company_id).
AfterBusinessData(company_id, s) ==
    IF SeedOk(company_id) THEN Advance(Seed(company_id, s), MaxOtherDraws) ELSE s

\* The sums under the four means of lines 434-437.
SalesSum(data) == SumSeq([i \in DOMAIN data.sales |-> data.sales[i].sales_amount])
MarginSum(data) == SumSeq([i \in DOMAIN data.sales |-> data.sales[i].profit_margin])
ExpensesSum(data) == SumSeq([i \in DOMAIN data.expenses |-> data.expenses[i].total_expenses])
RetentionSum(data) == SumSeq([i \in DOMAIN data.customers |-> data.customers[i].retention_rate])

\* expense_ratio (line 454) as <<numerator, denominator>>.
ExpenseRatio(data) ==
    <<100 * ExpensesSum(data) * Len(data.sales), SalesSum(data) * Len(data.expenses)>>

\* Lines 443-451: the profit margin score.
MarginScore(data) ==
    LET n == Len(data.sales)
    IN  IF MarginSum(data) >= 2500 * n THEN 25
        ELSE IF MarginSum(data) >= 2000 * n THEN 20
        ELSE IF MarginSum(data) >= 1500 * n THEN 15
        ELSE 10

\* Lines 453-462: the expense control score.
ExpenseScore(data) ==
    LET ratio == ExpenseRatio(data)
    IN  IF ratio[1] <= 50 * ratio[2] THEN 25
        ELSE IF ratio[1] <= 60 * ratio[2] THEN 20
        ELSE IF ratio[1] <= 70 * ratio[2] THEN 15
        ELSE 10

\* Lines 464-472: the customer retention score.
RetentionScore(data) ==
    LET n == Len(data.customers)
    IN  IF RetentionSum(data) >= 8000 * n THEN 25
        ELSE IF RetentionSum(data) >= 7000 * n THEN 20
        ELSE IF RetentionSum(data) >= 6000 * n THEN 15
        ELSE 10

\* Lines 474-485: the growth score, for more than three months of sales.
GrowthScore(data) ==
    LET sales_trend == [i \in DOMAIN data.sales |-> data.sales[i].sales_amount]
        first == sales_trend[1]
        gain == sales_trend[Len(sales_trend)] - sales_trend[1]
    IN  IF Len(sales_trend) > 3
        THEN IF 10 * gain >= 2 * first THEN 25
             ELSE IF 10 * gain >= first THEN 20
             ELSE IF 100 * gain >= 5 * first THEN 15
             ELSE 10
        ELSE 0

\* (HealthStatusFloor: everything under 50 called critical.)
HealthStatusFloor(health_score) ==
    IF health_score >= 80 THEN "excellent"
    ELSE IF health_score >= 65 THEN "good"
    ELSE IF health_score >= 50 THEN "fair"
    ELSE "critical"

\* Lines 487-497.
HealthStatus(health_score) ==
    IF health_score >= 80 THEN "excellent"
    ELSE IF health_score >= 65 THEN "good"
    ELSE IF health_score >= 50 THEN "fair"
    ELSE IF health_score >= 35 THEN "poor"
    ELSE "critical"

\* Lines 499-506.
KeyRecommendations(data) ==
    (IF MarginSum(data) < 2000 * Len(data.sales)
     THEN <<"Focus on improving profit margins">> ELSE <<>>)
    \o (IF ExpenseRatio(data)[1] > 60 * ExpenseRatio(data)[2]
        THEN <<"Implement cost control measures">> ELSE <<>>)
    \o (IF RetentionSum(data) < 7000 * Len(data.customers)
        THEN <<"Enhance customer retention strategies">> ELSE <<>>)

\* _fallback_summary (lines 528-548).
FallbackSummary ==
    [overall_health |-> "starting",
     health_score |-> 50,
     data_points_analyzed |-> 0,
     key_recommendations |-> <<"Establish consistent data collection practices",
                               "Focus on building customer relationships",
                               "Implement basic expense tracking">>,
     fallback |-> TRUE]

\* generate_summary(company_id) (lines 428-526).
GenerateSummary(company_id) ==
    LET g == GetBusinessData(company_id)
        health_score == MarginScore(g.data) + ExpenseScore(g.data)
                        + RetentionScore(g.data) + GrowthScore(g.data)
    IN  IF g.err THEN FallbackSummary
        ELSE [overall_health |-> HealthStatus(health_score),
              health_score |-> health_score,
              data_points_analyzed |-> Len(g.data.sales),
              key_recommendations |-> KeyRecommendations(g.data),
              fallback |-> FALSE]

Summarise(company_id) ==
    /\ pc = "idle"
    /\ summary' = <<[company_id |-> company_id, result |-> GenerateSummary(company_id)]>>
    /\ rng' = AfterBusinessData(company_id, rng)
    /\ UNCHANGED <<month, forest, history, pc, req, predictions, recommendations,
                   offered, generated, forecast, predictorVars, trackVars, api_key>>
    /\ UNCHANGED <<paymentVars, query, answer, business_data>>

\* Summaries asked for over every shape of business data.
SummaryIds == {-1, 1, 2}

InitSummary ==
    /\ PredictorIdle
    /\ payment_recommender = [models |-> <<>>, is_trained |-> FALSE, last_trained |-> <<>>]
    /\ payment_trained = {}
    /\ payment_status = <<>>
    /\ payment_data = <<>>
    /\ customer_data = <<>>
    /\ recommendation = <<>>
    /\ assessment = <<>>
    /\ query = <<>>
    /\ answer = <<>>
    /\ business_data \in BusinessShapes
    /\ summary = <<>>

NextSummary == \E c \in SummaryIds : Call(Summarise(c))

SpecSummary == InitSummary /\ [][NextSummary]_vars

\* The scores one component can take.
ComponentScores == {10, 15, 20, 25}

\* C26: a summary that is not the fallback has a health_score that is the
\* sum of four components from {10, 15, 20, 25}, so a multiple of 5 from 40
\* to 100; overall_health is excellent from 80, good from 65, fair from 50
\* and poor from 35, and is never critical.
C26_HealthScore ==
    (summary # <<>> /\ ~summary[1].result.fallback) =>
        LET r == summary[1].result
            score == r.health_score
        IN  /\ \E a \in ComponentScores, b \in ComponentScores,
                  c \in ComponentScores, d \in ComponentScores : score = a + b + c + d
            /\ score % 5 = 0
            /\ score >= 40 /\ score <= 100
            /\ r.overall_health = "excellent" <=> score >= 80
            /\ r.overall_health = "good" <=> (score >= 65 /\ score < 80)
            /\ r.overall_health = "fair" <=> (score >= 50 /\ score < 65)
            /\ r.overall_health = "poor" <=> (score >= 35 /\ score < 50)
            /\ r.overall_health # "critical"

\* The weakest business the data source can show: a margin under 20
\* percent, expenses over 70 percent of sales, retention under 0.6 and
\* falling sales give 15 + 10 + 10 + 10.
C26_Witness ==
    /\ summary # <<>>
    /\ ~summary[1].result.fallback
    /\ summary[1].result.health_score = 45
    /\ summary[1].result.overall_health = "poor"

----------------------------------------------------------------------------
\* process_natural_query.  A text is the sequence of its characters.

UpperCase == <<"A", "B", "C", "D", "E", "F", "G", "H", "I", "J", "K", "L", "M", "N", "O", "P", "Q", "R", "S", "T", "U", "V", "W", "X", "Y", "Z">>
LowerCase == <<"a", "b", "c", "d", "e", "f", "g", "h", "i", "j", "k", "l", "m", "n", "o", "p", "q", "r", "s", "t", "u", "v", "w", "x", "y", "z">>

\* str.lower() on one character.
Lower(ch) ==
    IF \E i \in DOMAIN UpperCase : UpperCase[i] = ch
    THEN LowerCase[CHOOSE i \in DOMAIN UpperCase : UpperCase[i] = ch]
    ELSE ch

\* query.lower() (line 554).
LowerText(text) == [i \in DOMAIN text |-> Lower(text[i])]

\* word in text: a run of consecutive characters of text equal to word.
Contains(text, word) ==
    \E i \in 1..(Len(text) - Len(word) + 1) : SubSeq(text, i, i + Len(word) - 1) = word

\* any(word in query_lower for word in words)
AnyWord(text, words) == \E word \in words : Contains(text, word)

\* The keyword lists of lines 557-566.
ProfitWords ==
    {<<"p", "r", "o", "f", "i", "t">>,
     <<"m", "a", "r", "g", "i", "n">>,
     <<"l", "o", "s", "s">>}
SalesWords ==
    {<<"s", "a", "l", "e">>,
     <<"r", "e", "v", "e", "n", "u", "e">>,
     <<"i", "n", "c", "o", "m", "e">>}
ExpenseWords ==
    {<<"e", "x", "p", "e", "n", "s", "e">>,
     <<"c", "o", "s", "t">>,
     <<"s", "p", "e", "n", "d">>}
CustomerWords ==
    {<<"c", "u", "s", "t", "o", "m", "e", "r">>,
     <<"c", "l", "i", "e", "n", "t">>}
InventoryWords ==
    {<<"i", "n", "v", "e", "n", "t", "o", "r", "y">>,
     <<"s", "t", "o", "c", "k">>,
     <<"p", "r", "o", "d", "u", "c", "t">>}

\* (CategorySalesFirst: the sales keywords tried before the profit ones.)
CategorySalesFirst(query_lower) ==
    IF AnyWord(query_lower, SalesWords) THEN "sales"
    ELSE IF AnyWord(query_lower, ProfitWords) THEN "profit"
    ELSE IF AnyWord(query_lower, ExpenseWords) THEN "expense"
    ELSE IF AnyWord(query_lower, CustomerWords) THEN "customer"
    ELSE IF AnyWord(query_lower, InventoryWords) THEN "inventory"
    ELSE "general"

\* The if/elif chain of lines 557-568: the handler that is called.
Category(query_lower) ==
    IF AnyWord(query_lower, ProfitWords) THEN "profit"
    ELSE IF AnyWord(query_lower, SalesWords) THEN "sales"
    ELSE IF AnyWord(query_lower, ExpenseWords) THEN "expense"
    ELSE IF AnyWord(query_lower, CustomerWords) THEN "customer"
    ELSE IF AnyWord(query_lower, InventoryWords) THEN "inventory"
    ELSE "general"

\* The five data handlers (lines 578-636): the answer names the figure and
\* says whether it earns the handler's praise; confidence in tenths.
HandleWithData(category, data) ==
    [handler |-> category,
     answer |-> [about |-> category,
                 praised |->
                     IF category = "profit" THEN MarginSum(data) >= 2500 * Len(data.sales)
                     ELSE IF category = "sales" THEN SalesSum(data) >= 100000 * Len(data.sales)
                     ELSE IF category = "expense"
                          THEN ExpensesSum(data) <= 50000 * Len(data.expenses)
                     ELSE IF category = "customer"
                          THEN RetentionSum(data) >= 8000 * Len(data.customers)
                     ELSE SumSeq([i \in DOMAIN data.inventory |->
                                     data.inventory[i].inventory_turnover])
                              >= 6000 * Len(data.inventory)],
     confidence |-> 9,
     data_sources |->
         IF category = "profit" THEN <<"sales_data", "profit_analysis">>
         ELSE IF category = "sales" THEN <<"sales_data">>
         ELSE IF category = "expense" THEN <<"expense_data">>
         ELSE IF category = "customer" THEN <<"customer_data">>
         ELSE <<"inventory_data">>]

\* _handle_general_query (lines 638-645).
HandleGeneral ==
    [handler |-> "general",
     answer |-> [about |-> "help", praised |-> FALSE],
     confidence |-> 5,
     data_sources |-> <<"business_intelligence">>]

\* The except clause of lines 570-576, entered from the handler that raised.
HandleFailure(category) ==
    [handler |-> category,
     answer |-> [about |-> "apology", praised |-> FALSE],
     confidence |-> 1,
     data_sources |-> <<>>]

\* process_natural_query(company_id, query) (lines 550-576): a data handler
\* fetches the business data first, and the fetch raises for an id that
\* cannot seed the source.
ProcessNaturalQuery(company_id, text) ==
    LET category == Category(LowerText(text))
        g == GetBusinessData(company_id)
    IN  IF category = "general" THEN HandleGeneral
        ELSE IF g.err THEN HandleFailure(category)
        ELSE HandleWithData(category, g.data)

Ask(company_id, text) ==
    /\ pc = "idle"
    /\ query' = <<[company_id |-> company_id, query |-> text]>>
    /\ answer' = <<ProcessNaturalQuery(company_id, text)>>
    /\ rng' = IF Category(LowerText(text)) = "general" THEN rng
              ELSE AfterBusinessData(company_id, rng)
    /\ UNCHANGED <<month, forest, history, pc, req, predictions, recommendations,
                   offered, generated, forecast, predictorVars, trackVars, api_key>>
    /\ UNCHANGED <<paymentVars, business_data, summary>>

\* The questions asked: one word, or two with a space between; a word
\* is a keyword, a keyword in capitals or inside a longer word, or no
\* keyword at all.
OtherWords ==
    {<<"P", "r", "o", "f", "i", "t">>,
     <<"S", "A", "L", "E", "S">>,
     <<"C", "O", "S", "T">>,
     <<"C", "l", "i", "e", "n", "t", "s">>,
     <<"S", "T", "O", "C", "K">>,
     <<"w", "h", "o", "l", "e", "s", "a", "l", "e", "r">>,
     <<"h", "e", "l", "l", "o">>,
     <<"H", "i">>}
QueryWords ==
    ProfitWords \cup SalesWords \cup ExpenseWords \cup CustomerWords \cup InventoryWords
    \cup OtherWords
PairWords ==
    {<<"P", "r", "o", "f", "i", "t">>,
     <<"S", "A", "L", "E", "S">>,
     <<"c", "o", "s", "t">>,
     <<"c", "l", "i", "e", "n", "t">>,
     <<"s", "t", "o", "c", "k">>,
     <<"m", "a", "r", "g", "i", "n">>,
     <<"h", "e", "l", "l", "o">>}
Queries == QueryWords \cup {w1 \o <<" ">> \o w2 : w1 \in PairWords, w2 \in PairWords}
QueryIds == {-1, 1}
QueryShapes ==
    {[last |-> 120000, margin |-> 30, expense_pct |-> 45, repeat |-> 48, lost |-> 12],
     [last |-> 90000, margin |-> 15, expense_pct |-> 75, repeat |-> 30, lost |-> 24]}

InitQuery ==
    /\ PredictorIdle
    /\ payment_recommender = [models |-> <<>>, is_trained |-> FALSE, last_trained |-> <<>>]
    /\ payment_trained = {}
    /\ payment_status = <<>>
    /\ payment_data = <<>>
    /\ customer_data = <<>>
    /\ recommendation = <<>>
    /\ assessment = <<>>
    /\ query = <<>>
    /\ answer = <<>>
    /\ business_data \in QueryShapes
    /\ summary = <<>>

NextQuery == \E c \in QueryIds, q \in Queries : Call(Ask(c, q))

SpecQuery == InitQuery /\ [][NextQuery]_vars

\* Two characters that are the same letter, capital or small.
SameLetter(a, b) ==
    a = b \/ \E k \in DOMAIN UpperCase : {a, b} = {UpperCase[k], LowerCase[k]}

\* One of the words occurs in the question, capitals and small letters
\* taken as equal.
Mentions(words) ==
    LET text == query[1].query
    IN  \E word \in words : \E i \in 1..(Len(text) - Len(word) + 1) :
            \A j \in DOMAIN word : SameLetter(text[i + j - 1], word[j])

\* C25: every query is answered by the one handler of the first category,
\* in the order profit, sales, expense, customer, inventory, whose keyword
\* occurs in the query whatever its capitals, or by the general handler; the answer
\* always has answer, confidence and data_sources, with confidence 0.9 from
\* a category handler, 0.5 from the general one and 0.1 when the handler
\* called has failed.
C25_FirstMatch ==
    answer # <<>> =>
        LET r == answer[1]
            failed == r.handler # "general" /\ ~SeedOk(query[1].company_id)
        IN  /\ {"answer", "confidence", "data_sources"} \subseteq DOMAIN r
            /\ r.handler = "profit" <=> Mentions(ProfitWords)
            /\ r.handler = "sales" <=> (~Mentions(ProfitWords) /\ Mentions(SalesWords))
            /\ r.handler = "expense" <=>
                  (~Mentions(ProfitWords \cup SalesWords) /\ Mentions(ExpenseWords))
            /\ r.handler = "customer" <=>
                  (/\ ~Mentions(ProfitWords \cup SalesWords \cup ExpenseWords)
                   /\ Mentions(CustomerWords))
            /\ r.handler = "inventory" <=>
                  (/\ ~Mentions(ProfitWords \cup SalesWords \cup ExpenseWords \cup CustomerWords)
                   /\ Mentions(InventoryWords))
            /\ r.handler = "general" <=>
                  ~Mentions(ProfitWords \cup SalesWords \cup ExpenseWords
                            \cup CustomerWords \cup InventoryWords)
            /\ r.confidence = (IF failed THEN 1 ELSE IF r.handler = "general" THEN 5 ELSE 9)
            /\ r.confidence = 1 <=> r.data_sources = <<>>

\* "SALES Profit": a sales keyword in capitals comes first in the text, and
\* the profit handler answers.
C25_Witness ==
    /\ answer # <<>>
    /\ query[1].company_id = 1
    /\ query[1].query = <<"S", "A", "L", "E", "S", " ", "P", "r", "o", "f", "i", "t">>
    /\ answer[1].handler = "profit"
    /\ answer[1].confidence = 9

====
